---- MODULE Spec2Model ----
(***************************************************************************)
(* Verification model of the darwin-v7 client library: the tiling level    *)
(* codec (src/src/item.rs), the export -> import annotation transformer    *)
(* (src/src/imports.rs), the annotation types with their numeric codes     *)
(* (src/src/annotation.rs, src/src/team.rs) and the export annotation      *)
(* codec (src/src/export.rs).                                              *)
(*                                                                         *)
(* Conventions                                                             *)
(*   - Option<T> is a record [some |-> TRUE, v |-> x] or [some |-> FALSE]. *)
(*   - Result<T, E> is [ok |-> TRUE, val |-> x] or [ok |-> FALSE, err |-> e]*)
(*   - a u32 is kept at its full width as <<hi, lo>> (two 16-bit halves,   *)
(*     value hi * 65536 + lo), because the model checker's integers are    *)
(*     narrower than u32.                                                  *)
(*   - an f32 is [k |-> "finite", v |-> n], [k |-> "nan", v |-> 0] or      *)
(*     [k |-> "inf", v |-> 0].                                             *)
(*   - a JSON key is the tuple of its characters; a JSON object is the     *)
(*     sequence of its entries [key |-> k, val |-> j] in document order.   *)
(***************************************************************************)
EXTENDS Integers, Sequences, FiniteSets, TLC

VARIABLES
    levels,     \* the Levels value handed to Serialize (NoLevels when none)
    wire,       \* the Levels JSON object on the wire: a sequence of entries
    origin,     \* who wrote wire: "none", "encoder" or "platform"
    decoded,    \* the Result of Deserialize on wire (Pending before it ran)
    reencoded,  \* the Result of Serialize on the decoded value: Ok(object)
    lhs,        \* left operand of the last ImageLevel comparison
    rhs,        \* right operand of the last ImageLevel comparison
    equal,      \* the outcome of lhs == rhs ("none" before any comparison)
    call,       \* the arguments of the last import-constructor call
    outcome,    \* the Result that call returned
    typeCall,   \* the last AnnotationType conversion called, with its argument
    typeRet,    \* what typeCall returned, or the panic it ended in
    annotation, \* the export ImageAnnotation handed to its encoder
    doc,        \* the ImageAnnotation JSON object: a sequence of entries
    docOrigin,  \* who wrote doc: "none", "encoder" or "platform"
    docDecoded, \* the Result of decoding doc (Pending before it ran)
    eligible,   \* the candidate class list the concurrent calls share
    workers,    \* each worker's import call: its arguments, position, result
    apiCall,    \* the client operation called, with its arguments and position
    sent,       \* the HTTP requests the operation has issued, in order
    reply,      \* the HTTP response the platform gave to the last request
    apiRet      \* the Result the operation returned (Pending before)

codecVars == <<levels, wire, origin, decoded, reencoded>>
eqVars == <<lhs, rhs, equal>>
importVars == <<call, outcome>>
typeVars == <<typeCall, typeRet>>
exportVars == <<annotation, doc, docOrigin, docDecoded>>
parallelVars == <<eligible, workers>>
apiVars == <<apiCall, sent, reply, apiRet>>
vars == <<codecVars, eqVars, importVars, typeVars, exportVars, parallelVars, apiVars>>

----------------------------------------------------------------------------
(* Bounds of the model.                                                    *)

MaxTile == 2        \* finite tile counts are 1..MaxTile
MaxLevels == 2      \* pyramid levels held by one in-memory Levels value
MaxEntries == 2     \* entries of a JSON object sent by the platform
MaxClasses == 3     \* length of the candidate class list
MaxPath == 2        \* keypoints of a polygon path
MaxGeometry == 2    \* geometry entries of one annotation sent by the platform

----------------------------------------------------------------------------
(* Option and Result.                                                      *)

Some(x) == [some |-> TRUE, v |-> x]
None == [some |-> FALSE]
Ok(x) == [ok |-> TRUE, val |-> x]
Err(e) == [ok |-> FALSE, err |-> e]
Pending == [pending |-> TRUE]

----------------------------------------------------------------------------
(* u32 at full width, its decimal rendering and its parser.                *)

Half == 65536
U32(hi, lo) == <<hi, lo>>
U32Zero == U32(0, 0)
U32One == U32(0, 1)
U32Max == U32(Half - 1, Half - 1)

DigitChars == <<"0", "1", "2", "3", "4", "5", "6", "7", "8", "9">>
IsDigit(c) == \E i \in 1..10 : DigitChars[i] = c
DigitVal(c) == (CHOOSE i \in 1..10 : DigitChars[i] = c) - 1

\* n / 10 and n % 10 on the two halves
U32Div10(n) == U32(n[1] \div 10, ((n[1] % 10) * Half + n[2]) \div 10)
U32Mod10(n) == ((n[1] % 10) * Half + n[2]) % 10

\* checked_mul(10) followed by checked_add(d): None on overflow of 32 bits
U32MulAdd(n, d) ==
    LET lo == n[2] * 10 + d
        hi == n[1] * 10 + (lo \div Half)
    IN  IF hi >= Half THEN None ELSE Some(U32(hi, lo % Half))

\* u32::to_string, the key serde_json writes for an integer map key
RECURSIVE U32ToString(_)
U32ToString(n) ==
    IF n[1] = 0 /\ n[2] < 10
    THEN <<DigitChars[n[2] + 1]>>
    ELSE Append(U32ToString(U32Div10(n)), DigitChars[U32Mod10(n) + 1])

RECURSIVE ParseDigits(_, _)
ParseDigits(digits, acc) ==
    IF digits = <<>> THEN Some(acc)
    ELSE IF ~IsDigit(Head(digits)) THEN None
    ELSE LET next == U32MulAdd(acc, DigitVal(Head(digits)))
         IN  IF next.some THEN ParseDigits(Tail(digits), next.v) ELSE None

\* str::parse::<u32>: an optional leading '+', then one or more decimal
\* digits whose value fits 32 bits; anything else is an error (None)
ParseU32(k) ==
    IF k = <<>> THEN None
    ELSE IF Len(k) = 1 /\ Head(k) \in {"+", "-"} THEN None
    ELSE IF Head(k) = "+" THEN ParseDigits(Tail(k), U32Zero)
    ELSE ParseDigits(k, U32Zero)

----------------------------------------------------------------------------
(* f32 and JSON values.                                                    *)

Fin(n) == [k |-> "finite", v |-> n]
NaN == [k |-> "nan", v |-> 0]
Inf == [k |-> "inf", v |-> 0]
IsNan(f) == f.k = "nan"
IsFinite(f) == f.k = "finite"
\* f32::eq, IEEE comparison: NaN equals nothing, itself included
F32Eq(a, b) == ~IsNan(a) /\ ~IsNan(b) /\ a = b

Floats == {Fin(n) : n \in 1..MaxTile} \cup {NaN, Inf}

\* JSON values. A number keeps whether its text has a fraction part: the
\* float writer always writes one ("82.0"), the integer writer never does.
JNull == [t |-> "null"]
JStr(s) == [t |-> "string", s |-> s]
JInt(n) == [t |-> "number", n |-> n, dot |-> FALSE]
JFloat(n) == [t |-> "number", n |-> n, dot |-> TRUE]
JObj(f) == [t |-> "object", fields |-> f]

InvalidType(expected) == [kind |-> "invalid_type", expected |-> expected]
MissingField(f) == [kind |-> "missing_field", field |-> f]

\* serde_json writes a finite f32 as a number and NaN or an infinity as null
SerF32(f) == IF IsFinite(f) THEN JFloat(f.v) ELSE JNull
\* any JSON number reads as an f32; null does not
DeF32(j) == IF j.t = "number" THEN Ok(Fin(j.n)) ELSE Err(InvalidType("f32"))

\* a u16 reads from a JSON integer (no fraction part) within 0..65535
U16Max == 65535
DeU16(j) ==
    IF j.t = "number" /\ ~j.dot /\ j.n >= 0 /\ j.n <= U16Max
    THEN Ok(j.n) ELSE Err(InvalidType("u16"))
\* a u32 field reads from a non-negative JSON integer (every integer the
\* model puts on the wire is below 2^31, so the upper limit is never met)
DeU32(j) ==
    IF j.t = "number" /\ ~j.dot /\ j.n >= 0
    THEN Ok(j.n) ELSE Err(InvalidType("u32"))

DeString(j) == IF j.t = "string" THEN Ok(j.s) ELSE Err(InvalidType("a string"))

\* Option<String>: None is written as null
SerOptionString(o) == IF o.some THEN JStr(o.v) ELSE JNull

----------------------------------------------------------------------------
(* ImageLevel: the record, its equality and its derived codec.             *)

ImageLevel(format, pixel_ratio, tile_height, tile_width, x_tiles, y_tiles) ==
    [format |-> format, pixel_ratio |-> pixel_ratio,
     tile_height |-> tile_height, tile_width |-> tile_width,
     x_tiles |-> x_tiles, y_tiles |-> y_tiles]

\* impl PartialEq for ImageLevel
ImageLevelEq(self, other) ==
    /\ self.format = other.format
    /\ self.pixel_ratio = other.pixel_ratio
    /\ self.tile_width = other.tile_width
    /\ self.tile_height = other.tile_height
    /\ (IsNan(self.x_tiles) = IsNan(other.x_tiles)
          \/ F32Eq(self.x_tiles, other.x_tiles))
    /\ (IsNan(self.y_tiles) = IsNan(other.y_tiles)
          \/ F32Eq(self.y_tiles, other.y_tiles))

\* #[derive(Serialize)] for ImageLevel
SerImageLevel(l) ==
    JObj([format |-> JStr(l.format),
          pixel_ratio |-> JInt(l.pixel_ratio),
          tile_height |-> JInt(l.tile_height),
          tile_width |-> JInt(l.tile_width),
          x_tiles |-> SerF32(l.x_tiles),
          y_tiles |-> SerF32(l.y_tiles)])

ImageLevelFields ==
    <<"format", "pixel_ratio", "tile_height", "tile_width", "x_tiles", "y_tiles">>

\* the field decoder of each ImageLevel field
DeField(name, j) ==
    CASE name = "format" -> DeString(j)
      [] name = "pixel_ratio" -> DeU16(j)
      [] name \in {"tile_height", "tile_width"} -> DeU32(j)
      [] OTHER -> DeF32(j)

\* #[derive(Deserialize)] for ImageLevel, read from a JSON object
DeImageLevel(j) ==
    IF j.t # "object" THEN Err(InvalidType("struct ImageLevel"))
    ELSE LET f == j.fields
             present == {i \in 1..6 : ImageLevelFields[i] \in DOMAIN f}
             bad == {i \in present :
                        ~DeField(ImageLevelFields[i], f[ImageLevelFields[i]]).ok}
             missing == (1..6) \ present
             first(S) == CHOOSE i \in S : \A o \in S : i <= o
         IN  IF bad # {}
             THEN DeField(ImageLevelFields[first(bad)],
                          f[ImageLevelFields[first(bad)]])
             ELSE IF missing # {}
             THEN Err(MissingField(ImageLevelFields[first(missing)]))
             ELSE Ok(ImageLevel(DeString(f.format).val,
                                DeU16(f.pixel_ratio).val,
                                DeU32(f.tile_height).val,
                                DeU32(f.tile_width).val,
                                DeF32(f.x_tiles).val,
                                DeF32(f.y_tiles).val))

----------------------------------------------------------------------------
(* Levels: the record, its derived equality and its hand-written codec.    *)

Levels(image_levels, base_key) ==
    [image_levels |-> image_levels, base_key |-> base_key]
NoLevels == [absent |-> TRUE]

\* #[derive(PartialEq)] for Levels: HashMap equality (same keys, values equal
\* under ImageLevel's eq) and Option<String> equality
LevelsEq(a, b) ==
    /\ DOMAIN a.image_levels = DOMAIN b.image_levels
    /\ \A i \in DOMAIN a.image_levels :
          ImageLevelEq(a.image_levels[i], b.image_levels[i])
    /\ a.base_key = b.base_key

BaseKeyStr == <<"b", "a", "s", "e", "_", "k", "e", "y">>
Entry(k, j) == [key |-> k, val |-> j]

\* the orders in which HashMap::iter may visit the keys of a map
IterOrders(m) ==
    {o \in [1..Cardinality(DOMAIN m) -> DOMAIN m] :
        \A i, j \in DOMAIN o : i # j => o[i] # o[j]}

\* Serialize for Levels with the base_key entry ahead of the levels
SerializeLevelsBaseKeyFirst(self, order) ==
    <<Entry(BaseKeyStr, SerOptionString(self.base_key))>>
    \o [i \in 1..Len(order) |->
           Entry(U32ToString(order[i]), SerImageLevel(self.image_levels[order[i]]))]

\* impl Serialize for Levels: one entry per level in iteration order, then
\* the base_key entry
SerializeLevels(self, order) ==
    [i \in 1..Len(order) |->
        Entry(U32ToString(order[i]), SerImageLevel(self.image_levels[order[i]]))]
    \o <<Entry(BaseKeyStr, SerOptionString(self.base_key))>>

\* HashMap::insert: a later value under the same key replaces the earlier
Insert(m, k, x) == [i \in DOMAIN m \cup {k} |-> IF i = k THEN x ELSE m[i]]

InvalidKey(k) == [kind |-> "custom", msg |-> <<"Invalid key: ", k>>]

\* mutant of VisitEntries: a key that is no u32 is skipped, not reported
RECURSIVE VisitEntriesSkippingBadKeys(_, _, _)
VisitEntriesSkippingBadKeys(entries, image_levels, base_key) ==
    IF entries = <<>>
    THEN Ok(Levels(image_levels, Some(base_key)))
    ELSE LET k == Head(entries).key
             j == Head(entries).val
         IN  IF k = BaseKeyStr
             THEN LET s == DeString(j)
                  IN  IF s.ok
                      THEN VisitEntriesSkippingBadKeys(Tail(entries),
                                                       image_levels, s.val)
                      ELSE s
             ELSE LET level_key == ParseU32(k)
                      level == DeImageLevel(j)
                  IN  IF ~level_key.some
                      THEN VisitEntriesSkippingBadKeys(Tail(entries),
                                                       image_levels, base_key)
                      ELSE IF ~level.ok THEN level
                      ELSE VisitEntriesSkippingBadKeys(
                               Tail(entries),
                               Insert(image_levels, level_key.v, level.val),
                               base_key)

\* the while loop of LevelVisitor::visit_map over the remaining entries
RECURSIVE VisitEntries(_, _, _)
VisitEntries(entries, image_levels, base_key) ==
    IF entries = <<>>
    THEN Ok(Levels(image_levels, Some(base_key)))
    ELSE LET k == Head(entries).key
             j == Head(entries).val
         IN  IF k = BaseKeyStr
             THEN LET s == DeString(j)
                  IN  IF s.ok
                      THEN VisitEntries(Tail(entries), image_levels, s.val)
                      ELSE s
             ELSE LET level_key == ParseU32(k)
                      level == DeImageLevel(j)
                  IN  IF ~level_key.some THEN Err(InvalidKey(k))
                      ELSE IF ~level.ok THEN level
                      ELSE VisitEntries(Tail(entries),
                                        Insert(image_levels, level_key.v, level.val),
                                        base_key)

\* mutant of VisitMap: the string read under "base_key" is never stored
VisitMapWithoutBaseKey(map) ==
    LET r == VisitEntries(map, <<>>, "")
    IN  IF r.ok THEN Ok(Levels(r.val.image_levels, Some(""))) ELSE r

\* LevelVisitor::visit_map
VisitMap(map) == VisitEntries(map, <<>>, "")

----------------------------------------------------------------------------
(* Inputs of the codec and of the equality.                                *)

\* ImageLevel operands of a comparison: every field takes two values or
\* more, the tile counts NaN and ordinary numbers
CompareLevels ==
    {ImageLevel(f, p, h, w, x, y) :
        f \in {"png", "jpg"}, p \in {1, 2}, h \in {1024, 2048},
        w \in {1024, 2048}, x \in Floats \ {Inf}, y \in Floats \ {Inf}}

\* ImageLevel values held by an in-memory Levels
CodecLevels ==
    {ImageLevel("png", 1, 2048, 2048, x, y) : x \in Floats, y \in {Fin(1), NaN}}

LevelIndexes == {U32Zero, U32One, U32Max}

LevelMaps ==
    UNION {[D -> CodecLevels] :
              D \in {S \in SUBSET LevelIndexes : Cardinality(S) <= MaxLevels}}

BaseKeys == {None, Some(""), Some("some-base-key.jpg")}

LevelsValues == {Levels(m, b) : m \in LevelMaps, b \in BaseKeys}

\* keys the platform may send: level indexes in and out of the u32 range,
\* signed spellings, a name, and the reserved key
PlatformKeys ==
    { <<"0">>, <<"1">>, <<"+", "1">>, <<"-", "1">>,
      <<"a", "n", "-", "i", "m", "a", "g", "e">>,
      BaseKeyStr,
      <<"4", "2", "9", "4", "9", "6", "7", "2", "9", "5">>,
      <<"4", "2", "9", "4", "9", "6", "7", "2", "9", "6">> }

\* a level whose x_tiles is spelled without a fraction part ("x_tiles": 1)
IntegerTilesLevel ==
    JObj([format |-> JStr("png"), pixel_ratio |-> JInt(1),
          tile_height |-> JInt(2048), tile_width |-> JInt(2048),
          x_tiles |-> JInt(1), y_tiles |-> JFloat(1)])

\* values the platform may send under a key
PlatformValues ==
    { SerImageLevel(ImageLevel("png", 1, 2048, 2048, Fin(1), Fin(1))),
      SerImageLevel(ImageLevel("png", 1, 2048, 2048, Fin(2), Fin(1))),
      SerImageLevel(ImageLevel("png", 1, 2048, 2048, NaN, Fin(1))),
      IntegerTilesLevel,
      JStr("some-base-key.jpg"), JStr("value"), JNull }

PlatformEntries == {Entry(k, j) : k \in PlatformKeys, j \in PlatformValues}

PlatformObjects == UNION {[1..n -> PlatformEntries] : n \in 0..MaxEntries}

----------------------------------------------------------------------------
(* Initial state and the operations of the codec and of the equality. Each  *)
(* behaviour follows one call from its arguments to its result: the        *)
(* functions are pure, so a second call starts from the same state.        *)

NoCall == [fn |-> "none"]
NoAnnotation == [absent |-> TRUE]
\* the worker threads of the concurrent import, and a worker without a call
Workers == {1, 2}
Idle == [pc |-> "idle"]

Init ==
    /\ levels = NoLevels
    /\ wire = <<>>
    /\ origin = "none"
    /\ decoded = Pending
    /\ reencoded = Pending
    /\ lhs = NoLevels
    /\ rhs = NoLevels
    /\ equal = "none"
    /\ call = NoCall
    /\ outcome = Pending
    /\ typeCall = NoCall
    /\ typeRet = Pending
    /\ annotation = NoAnnotation
    /\ doc = <<>>
    /\ docOrigin = "none"
    /\ docDecoded = Pending
    /\ eligible = [given |-> FALSE]
    /\ workers = [w \in Workers |-> Idle]
    /\ apiCall = NoCall
    /\ sent = <<>>
    /\ reply = Pending
    /\ apiRet = Pending

\* serde_json::to_string(&levels): Serialize for Levels writes the wire
Serialize ==
    /\ origin = "none"
    /\ \E v \in LevelsValues :
      \E order \in IterOrders(v.image_levels) :
        /\ levels' = v
        /\ wire' = SerializeLevels(v, order)
        /\ origin' = "encoder"
        /\ decoded' = Pending
        /\ reencoded' = Pending
        /\ UNCHANGED <<eqVars, importVars, typeVars, exportVars, parallelVars, apiVars>>

\* a Levels JSON object arrives from the platform
Receive ==
    /\ origin = "none"
    /\ \E j \in PlatformObjects :
        /\ levels' = NoLevels
        /\ wire' = j
        /\ origin' = "platform"
        /\ decoded' = Pending
        /\ reencoded' = Pending
        /\ UNCHANGED <<eqVars, importVars, typeVars, exportVars, parallelVars, apiVars>>

\* serde_json::from_str::<Levels>(wire): Deserialize for Levels
Deserialize ==
    /\ origin # "none"
    /\ decoded = Pending
    /\ decoded' = VisitMap(wire)
    /\ UNCHANGED <<levels, wire, origin, reencoded>>
    /\ UNCHANGED <<eqVars, importVars, typeVars, exportVars, parallelVars, apiVars>>

\* a == b on two ImageLevel values
Compare ==
    /\ equal = "none"
    /\ \E a \in CompareLevels, b \in CompareLevels :
        /\ lhs' = a
        /\ rhs' = b
        /\ equal' = IF ImageLevelEq(a, b) THEN "true" ELSE "false"
        /\ UNCHANGED <<codecVars, importVars, typeVars, exportVars, parallelVars, apiVars>>

\* serde_json::to_string(&decoded): Serialize for Levels writes the decoded
\* value again
Reencode ==
    /\ decoded # Pending
    /\ decoded.ok
    /\ reencoded = Pending
    /\ \E order \in IterOrders(decoded.val.image_levels) :
        /\ reencoded' = Ok(SerializeLevels(decoded.val, order))
        /\ UNCHANGED <<levels, wire, origin, decoded>>
        /\ UNCHANGED <<eqVars, importVars, typeVars, exportVars, parallelVars, apiVars>>

NextCodec == Serialize \/ Receive \/ Deserialize \/ Reencode
SpecCodec == Init /\ [][NextCodec]_vars

NextEq == Compare
SpecEq == Init /\ [][NextEq]_vars

----------------------------------------------------------------------------
(* The import transformer: AnnotationImportAnnotation's constructors.      *)

Tag == [struct |-> "Tag"]
Keypoint(x, y) == [x |-> x, y |-> y]
AnnotationClass(name, id) == [name |-> name, id |-> id]
\* the fields of the export annotation the constructors read
ImageAnnotation(name, tag) == [name |-> name, tag |-> tag]

NoMatchMsg == "Unable to find matching annotation class ID from export JSON"
NoIdMsg == "Annotation Class has no ID"
\* the call unwound by a panic instead of returning
Panicked == [ok |-> FALSE, panic |-> TRUE]

\* Option::unwrap: the value, or a panic on None
Unwrap(o) == IF o.some THEN Ok(o.v) ELSE Panicked

\* mutant of NameMatches: the name is unwrapped without the is_some test
NameMatchesUnguarded(ac, class_name) ==
    LET n == Unwrap(ac.name)
    IN  IF ~n.ok THEN "panic"
        ELSE IF n.val = class_name THEN "true" ELSE "false"

\* the closure given to find: "true", "false" or "panic"
NameMatches(ac, class_name) ==
    IF ac.name.some
    THEN LET n == Unwrap(ac.name)
         IN  IF ~n.ok THEN "panic"
             ELSE IF n.val = class_name THEN "true" ELSE "false"
    ELSE "false"

\* mutant of Find: the last element the closure accepts, as rfind returns
RECURSIVE FindLast(_, _)
FindLast(classes, class_name) ==
    IF classes = <<>> THEN Ok(None)
    ELSE LET m == NameMatches(classes[Len(classes)], class_name)
         IN  IF m = "panic" THEN Panicked
             ELSE IF m = "true" THEN Ok(Some(classes[Len(classes)]))
             ELSE FindLast(SubSeq(classes, 1, Len(classes) - 1), class_name)

\* mutant of Find: a class of the name that has no id is passed over, so
\* the scan falls through to a later class of the same name
RECURSIVE FindWithId(_, _)
FindWithId(classes, class_name) ==
    IF classes = <<>> THEN Ok(None)
    ELSE LET m == NameMatches(Head(classes), class_name)
         IN  IF m = "panic" THEN Panicked
             ELSE IF m = "true" /\ Head(classes).id.some
             THEN Ok(Some(Head(classes)))
             ELSE FindWithId(Tail(classes), class_name)

\* Iterator::find over the slice: Ok(Some(first element the closure accepts)),
\* Ok(None) when it accepts none, Panicked when the closure panics on the way
RECURSIVE Find(_, _)
Find(classes, class_name) ==
    IF classes = <<>> THEN Ok(None)
    ELSE LET m == NameMatches(Head(classes), class_name)
         IN  IF m = "panic" THEN Panicked
             ELSE IF m = "true" THEN Ok(Some(Head(classes)))
             ELSE Find(Tail(classes), class_name)

\* mutant of IdOrError: a missing id is defaulted, as unwrap_or_default does
IdOrDefault(ac) == IF ac.id.some THEN Ok(ac.id.v) ELSE Ok(0)

\* .id.context("Annotation Class has no ID") on the class found
IdOrError(ac) == IF ac.id.some THEN Ok(ac.id.v) ELSE Err(NoIdMsg)

\* AnnotationImportAnnotation::find_annotation_class_id
FindAnnotationClassId(eligible_annotation_classes, class_name) ==
    LET found == Find(eligible_annotation_classes, class_name)
    IN  IF ~found.ok THEN found
        ELSE IF ~found.val.some THEN Err(NoMatchMsg)
        ELSE IdOrError(found.val.v)

\* mutant of AnnotationImportPolygonFrom: the keypoints in reverse order
AnnotationImportPolygonFromReversed(value) ==
    [path |-> [i \in 1..Len(value) |-> value[Len(value) + 1 - i]]]

\* impl From<Vec<Keypoint>> for AnnotationImportPolygon
AnnotationImportPolygonFrom(value) == [path |-> value]

\* impl From<Vec<Keypoint>> for AnnotationImportData
AnnotationImportDataFrom(value) ==
    [polygon |-> Some(AnnotationImportPolygonFrom(value)), tag |-> None]

AnnotationImportAnnotation(id, data, annotation_class_id, slot_names) ==
    [id |-> id, data |-> data, annotation_class_id |-> annotation_class_id,
     context_keys |-> [slot_names |-> slot_names]]

\* AnnotationImportAnnotation::new_polygon_annotation; uuid is the value
\* Uuid::new_v4 draws
NewPolygonAnnotation(original_annotation, path, eligible_annotation_classes, slot_name, uuid) ==
    LET data == AnnotationImportDataFrom(path)
        class_id == FindAnnotationClassId(eligible_annotation_classes,
                                          original_annotation.name)
    IN  IF ~class_id.ok THEN class_id
        ELSE Ok(AnnotationImportAnnotation(uuid, data, class_id.val, <<slot_name>>))

\* mutant of NewTagAnnotation: the tag is set to Some(Tag {}) instead of
\* being cloned from the original annotation
NewTagAnnotationFreshTag(original_annotation, eligible_annotation_classes, slot_name, uuid) ==
    LET data == [polygon |-> None, tag |-> Some(Tag)]
        class_id == FindAnnotationClassId(eligible_annotation_classes,
                                          original_annotation.name)
    IN  IF ~class_id.ok THEN class_id
        ELSE Ok(AnnotationImportAnnotation(uuid, data, class_id.val, <<slot_name>>))

\* AnnotationImportAnnotation::new_tag_annotation
NewTagAnnotation(original_annotation, eligible_annotation_classes, slot_name, uuid) ==
    LET data == [polygon |-> None, tag |-> original_annotation.tag]
        class_id == FindAnnotationClassId(eligible_annotation_classes,
                                          original_annotation.name)
    IN  IF ~class_id.ok THEN class_id
        ELSE Ok(AnnotationImportAnnotation(uuid, data, class_id.val, <<slot_name>>))

\* inputs of the constructors
ClassValues ==
    { AnnotationClass(None, None),
      AnnotationClass(None, Some(1)),
      AnnotationClass(Some("Sample Class"), None),
      AnnotationClass(Some("Sample Class"), Some(1)),
      AnnotationClass(Some("Sample Class"), Some(2)),
      AnnotationClass(Some("sample class"), Some(3)) }
ClassLists == UNION {[1..n -> ClassValues] : n \in 0..MaxClasses}
Annotations ==
    {ImageAnnotation(n, t) : n \in {"Sample Class", "Other"}, t \in {None, Some(Tag)}}
Keypoints == {Keypoint(10, 10), Keypoint(20, 20)}
Paths == UNION {[1..n -> Keypoints] : n \in 0..MaxPath}
SlotNames == {"sample_slot", "slot_2"}
Uuids == {"uuid-a", "uuid-b"}

CallNewPolygonAnnotation ==
    /\ call = NoCall
    /\ \E a \in Annotations, p \in Paths, cs \in ClassLists,
          s \in SlotNames, u \in Uuids :
        /\ call' = [fn |-> "new_polygon_annotation", original_annotation |-> a,
                    path |-> p, eligible_annotation_classes |-> cs,
                    slot_name |-> s]
        /\ outcome' = NewPolygonAnnotation(a, p, cs, s, u)
        /\ UNCHANGED <<codecVars, eqVars, typeVars, exportVars, parallelVars, apiVars>>

CallNewTagAnnotation ==
    /\ call = NoCall
    /\ \E a \in Annotations, cs \in ClassLists, s \in SlotNames, u \in Uuids :
        /\ call' = [fn |-> "new_tag_annotation", original_annotation |-> a,
                    eligible_annotation_classes |-> cs, slot_name |-> s]
        /\ outcome' = NewTagAnnotation(a, cs, s, u)
        /\ UNCHANGED <<codecVars, eqVars, typeVars, exportVars, parallelVars, apiVars>>

NextImport == CallNewPolygonAnnotation \/ CallNewTagAnnotation
SpecImport == Init /\ [][NextImport]_vars

----------------------------------------------------------------------------
(* Properties of the tiling level codec (checked under SpecCodec) and of   *)
(* ImageLevel equality (checked under SpecEq).                             *)

Decoded == origin # "none" /\ decoded # Pending
RoundTripped == origin = "encoder" /\ decoded # Pending

TilesOf(v) ==
    UNION {{v.image_levels[i].x_tiles, v.image_levels[i].y_tiles} :
              i \in DOMAIN v.image_levels}
AllFinite(v) == \A f \in TilesOf(v) : IsFinite(f)
NoInfinity(v) == \A f \in TilesOf(v) : f # Inf

\* C1: for every Levels value whose tile counts are all ordinary numbers
\* (base_key present or absent), decoding what Serialize wrote succeeds and
\* yields a value equal to the one serialized.
C1_RoundTripNonNaN ==
    (RoundTripped /\ AllFinite(levels))
        => (decoded.ok /\ LevelsEq(decoded.val, levels))

\* a key the claim calls a non-negative base-10 integer: decimal digits,
\* with or without a leading plus sign
IsDecimalKey(k) ==
    LET d == IF k # <<>> /\ Head(k) = "+" THEN Tail(k) ELSE k
    IN  d # <<>> /\ \A i \in 1..Len(d) : IsDigit(d[i])
OffendingAt(w) ==
    {i \in 1..Len(w) : w[i].key # BaseKeyStr /\ ~IsDecimalKey(w[i].key)}
FirstOf(S) == CHOOSE i \in S : \A o \in S : i <= o
\* the entry is one the decoder takes in and moves past
Accepted(e) ==
    IF e.key = BaseKeyStr THEN e.val.t = "string"
    ELSE ParseU32(e.key).some /\ DeImageLevel(e.val).ok

\* C2 as written: an object holding a key that is neither "base_key" nor a
\* non-negative base-10 integer never decodes, and the error names such a key.
C2_OffendingKeyAlwaysNamed ==
    (Decoded /\ OffendingAt(wire) # {})
        => /\ ~decoded.ok
           /\ \E i \in OffendingAt(wire) : decoded.err = InvalidKey(wire[i].key)

\* C2 amended: such an object never decodes, whatever its other keys and
\* wherever the key stands; the error names the first such key whenever every
\* entry ahead of it is accepted (otherwise the first rejected entry's own
\* error is returned).
C2_OffendingKeyFailsDecode ==
    (Decoded /\ OffendingAt(wire) # {})
        => /\ ~decoded.ok
           /\ LET first == FirstOf(OffendingAt(wire))
              IN  (\A j \in 1..(first - 1) : Accepted(wire[j]))
                      => decoded.err = InvalidKey(wire[first].key)

\* C2 witness: an offending key in second place, behind an accepted level
\* entry, is the key the error names.
C2_Witness ==
    /\ Decoded
    /\ Len(wire) = 2
    /\ OffendingAt(wire) = {2}
    /\ wire[1].key # BaseKeyStr
    /\ Accepted(wire[1])
    /\ decoded = Err(InvalidKey(wire[2].key))

\* a Levels JSON object as the wire format defines it: distinct keys, each
\* the decimal string of a u32 level index holding an ImageLevel, and one
\* "base_key" entry holding a string
NumericAt(w) == {i \in 1..Len(w) : w[i].key # BaseKeyStr}
BaseKeyAt(w) == {i \in 1..Len(w) : w[i].key = BaseKeyStr}
WellFormed(w) ==
    /\ \A i, j \in 1..Len(w) : i # j => w[i].key # w[j].key
    /\ Cardinality(BaseKeyAt(w)) = 1
    /\ \A i \in BaseKeyAt(w) : w[i].val.t = "string"
    /\ \A i \in NumericAt(w) :
          /\ ParseU32(w[i].key).some
          /\ U32ToString(ParseU32(w[i].key).v) = w[i].key
          /\ DeImageLevel(w[i].val).ok

\* C3: decoding a well-formed object yields one image_levels entry per
\* numeric key, under the key's integer value and holding the ImageLevel
\* read from the key's value, and base_key = Some(the "base_key" string).
C3_DecodeWellFormed ==
    (Decoded /\ WellFormed(wire))
        => /\ decoded.ok
           /\ DOMAIN decoded.val.image_levels =
                  {ParseU32(wire[i].key).v : i \in NumericAt(wire)}
           /\ Cardinality(DOMAIN decoded.val.image_levels) =
                  Cardinality(NumericAt(wire))
           /\ \A i \in NumericAt(wire) :
                  decoded.val.image_levels[ParseU32(wire[i].key).v]
                      = DeImageLevel(wire[i].val).val
           /\ \A i \in BaseKeyAt(wire) :
                  decoded.val.base_key = Some(wire[i].val.s)

\* C3 witness: a platform object with a level under "1" and a non-empty
\* base_key has been decoded.
C3_Witness ==
    /\ Decoded
    /\ origin = "platform"
    /\ WellFormed(wire)
    /\ Len(wire) = 2
    /\ wire[1].key = <<"1">>
    /\ decoded.ok
    /\ decoded.val.base_key = Some("some-base-key.jpg")
    /\ DOMAIN decoded.val.image_levels = {U32One}

\* C4: Serialize writes one entry per level, keyed by the decimal string of
\* its index, and exactly one more entry, "base_key", whose value is the
\* stored string (the empty string when base_key is absent), never null.
C4_EncodeShape ==
    origin = "encoder"
        => /\ Len(wire) = Cardinality(DOMAIN levels.image_levels) + 1
           /\ \A i \in DOMAIN levels.image_levels :
                  Cardinality({n \in 1..Len(wire) :
                      wire[n] = Entry(U32ToString(i),
                                      SerImageLevel(levels.image_levels[i]))}) = 1
           /\ Cardinality(BaseKeyAt(wire)) = 1
           /\ \A n \in BaseKeyAt(wire) :
                  wire[n].val = JStr(IF levels.base_key.some
                                     THEN levels.base_key.v ELSE "")

\* C5: for every Levels value whose base_key is a string, NaN tile counts
\* included, decoding what Serialize wrote succeeds and yields an equal value.
C5_RoundTripWithNaN ==
    (RoundTripped /\ levels.base_key.some /\ NoInfinity(levels))
        => (decoded.ok /\ LevelsEq(decoded.val, levels))

\* tile counts agree: both NaN, or neither NaN and the same number
TilesAgree(a, b) == (IsNan(a) /\ IsNan(b)) \/ (~IsNan(a) /\ ~IsNan(b) /\ a = b)

\* C6: two ImageLevel values compare equal exactly when format, pixel_ratio,
\* tile_height and tile_width are equal and x_tiles and y_tiles agree, NaN
\* counting as equal to NaN.
C6_EqualityByFields ==
    equal # "none"
        => (equal = "true"
              <=> /\ lhs.format = rhs.format
                  /\ lhs.pixel_ratio = rhs.pixel_ratio
                  /\ lhs.tile_height = rhs.tile_height
                  /\ lhs.tile_width = rhs.tile_width
                  /\ TilesAgree(lhs.x_tiles, rhs.x_tiles)
                  /\ TilesAgree(lhs.y_tiles, rhs.y_tiles))

----------------------------------------------------------------------------
(* Properties of the import transformer (checked under SpecImport).        *)

Called == call # NoCall
MatchIndexes ==
    {i \in 1..Len(call.eligible_annotation_classes) :
        call.eligible_annotation_classes[i].name
            = Some(call.original_annotation.name)}
FirstMatch == call.eligible_annotation_classes[FirstOf(MatchIndexes)]

\* C7: the class selected is the first of the list whose name is Some and
\* equals the annotation's name: the call's result is that class's id (or
\* the failure for its missing id), whatever classes without a name precede
\* it and whatever classes follow it.
C7_FirstMatchSelected ==
    (Called /\ MatchIndexes # {})
        => IF FirstMatch.id.some
           THEN outcome.ok /\ outcome.val.annotation_class_id = FirstMatch.id.v
           ELSE ~outcome.ok

\* C7 witness: a class without a name, then the match, then a second class
\* of the same name with another id; the first match's id is returned.
C7_Witness ==
    /\ Called
    /\ Len(call.eligible_annotation_classes) = 3
    /\ ~call.eligible_annotation_classes[1].name.some
    /\ MatchIndexes = {2, 3}
    /\ call.eligible_annotation_classes[2].id = Some(1)
    /\ call.eligible_annotation_classes[3].id = Some(2)
    /\ outcome.ok
    /\ outcome.val.annotation_class_id = 1

\* C8: when no candidate class has the annotation's name (an empty list and
\* a list of classes without a name included), both constructors return the
\* class-resolution error: no panic, no annotation.
C8_NoMatchIsError ==
    (Called /\ MatchIndexes = {}) => outcome = Err(NoMatchMsg)

\* C8 witness: new_tag_annotation over a non-empty list that holds a class
\* without a name returned the class-resolution error.
C8_Witness ==
    /\ Called
    /\ call.fn = "new_tag_annotation"
    /\ MatchIndexes = {}
    /\ \E i \in 1..Len(call.eligible_annotation_classes) :
          ~call.eligible_annotation_classes[i].name.some
    /\ outcome = Err(NoMatchMsg)

\* C9: when the class matched by name has no id, both constructors fail
\* with the missing-id error, which differs from the class-resolution
\* error; no id is made up.
C9_MissingIdIsError ==
    (Called /\ MatchIndexes # {} /\ ~FirstMatch.id.some)
        => /\ outcome = Err(NoIdMsg)
           /\ outcome # Err(NoMatchMsg)

\* C9 witness: new_polygon_annotation matched a class without an id.
C9_Witness ==
    /\ Called
    /\ call.fn = "new_polygon_annotation"
    /\ MatchIndexes # {}
    /\ ~FirstMatch.id.some
    /\ outcome = Err(NoIdMsg)

\* C10: a successful new_polygon_annotation returns data.polygon.path equal
\* to the given path (same keypoints, same order), no data.tag, the id of
\* the class resolved by name, and slot_names = [slot_name].
C10_PolygonAnnotation ==
    (Called /\ call.fn = "new_polygon_annotation" /\ outcome.ok)
        => /\ outcome.val.data.polygon = Some([path |-> call.path])
           /\ outcome.val.data.tag = None
           /\ MatchIndexes # {}
           /\ outcome.val.annotation_class_id = FirstMatch.id.v
           /\ outcome.val.context_keys.slot_names = <<call.slot_name>>

\* C10 witness: a two-point path with distinct points went through.
C10_Witness ==
    /\ Called
    /\ call.fn = "new_polygon_annotation"
    /\ call.path = <<Keypoint(10, 10), Keypoint(20, 20)>>
    /\ outcome.ok
    /\ outcome.val.data.polygon.v.path = call.path

----------------------------------------------------------------------------
(* The annotation type model (src/src/annotation.rs, src/src/team.rs): the  *)
(* variants, their numeric codes and the string-based constructor. A       *)
(* string handed to try_from is the tuple of its characters.               *)

\* the payload of a variant that carries none
Unit == [unit |-> TRUE]
BoundingBox(h, w, x, y) == [h |-> h, w |-> w, x |-> x, y |-> y]
Polygon(paths) == [paths |-> paths]
Text(text) == [text |-> text]
\* Default::default() of the payload structs
BoundingBoxDefault == BoundingBox(None, None, None, None)
KeypointDefault == Keypoint(Fin(0), Fin(0))
PolygonDefault == Polygon(<<>>)

\* a value of annotation::AnnotationType
AnnotationType(variant, payload) == [variant |-> variant, payload |-> payload]
\* a value of team::AnnotationType, whose variants carry no payload
TeamAnnotationType(variant) == [variant |-> variant]

\* a call that ran into todo!() unwinds with a panic; a returned u32 is
\* Ok(code)
Todo == Panicked

\* the code table with Polygon and BoundingBox exchanged
U32FromExchanged(value) ==
    CASE value.variant = "Attributes" -> Ok(5)
      [] value.variant = "BoundingBox" -> Ok(3)
      [] value.variant = "Line" -> Ok(11)
      [] value.variant = "Polygon" -> Ok(2)
      [] value.variant = "Skeleton" -> Ok(12)
      [] value.variant = "Tag" -> Ok(1)
      [] value.variant = "Text" -> Ok(6)
      [] OTHER -> Todo

\* impl From<AnnotationType> for u32
U32From(value) ==
    CASE value.variant = "Attributes" -> Ok(5)
      [] value.variant = "AutoAnnotate" -> Todo
      [] value.variant = "BoundingBox" -> Ok(2)
      [] value.variant = "Cuboid" -> Todo
      [] value.variant = "DirectionalVector" -> Todo
      [] value.variant = "Ellipse" -> Todo
      [] value.variant = "Inference" -> Todo
      [] value.variant = "InstanceId" -> Todo
      [] value.variant = "Keypoint" -> Todo
      [] value.variant = "Line" -> Ok(11)
      [] value.variant = "Measures" -> Todo
      [] value.variant = "Polygon" -> Ok(3)
      [] value.variant = "Skeleton" -> Ok(12)
      [] value.variant = "Tag" -> Ok(1)
      [] value.variant = "Text" -> Ok(6)
      [] value.variant = "RasterLayer" -> Todo

\* impl Into<u32> for team::AnnotationType
TeamInto(self) ==
    CASE self.variant = "Attributes" -> Ok(5)
      [] self.variant = "AutoAnnotate" -> Todo
      [] self.variant = "BoundingBox" -> Ok(2)
      [] self.variant = "Cuboid" -> Todo
      [] self.variant = "DirectionalVector" -> Todo
      [] self.variant = "Ellipse" -> Todo
      [] self.variant = "Inference" -> Todo
      [] self.variant = "InstanceId" -> Todo
      [] self.variant = "Keypoint" -> Todo
      [] self.variant = "Line" -> Ok(11)
      [] self.variant = "Measures" -> Todo
      [] self.variant = "Polygon" -> Ok(3)
      [] self.variant = "Skeleton" -> Ok(12)
      [] self.variant = "Tag" -> Ok(1)
      [] self.variant = "Text" -> Ok(6)

UpperChars ==
    <<"A", "B", "C", "D", "E", "F", "G", "H", "I", "J", "K", "L", "M",
      "N", "O", "P", "Q", "R", "S", "T", "U", "V", "W", "X", "Y", "Z">>
LowerChars ==
    <<"a", "b", "c", "d", "e", "f", "g", "h", "i", "j", "k", "l", "m",
      "n", "o", "p", "q", "r", "s", "t", "u", "v", "w", "x", "y", "z">>

\* str::to_lowercase on the ASCII strings of the model
ToLowercase(s) ==
    [i \in DOMAIN s |->
        IF \E k \in DOMAIN UpperChars : UpperChars[k] = s[i]
        THEN LowerChars[CHOOSE k \in DOMAIN UpperChars : UpperChars[k] = s[i]]
        ELSE s[i]]

\* the arms of the match in try_from, in source order
TryFromArms ==
    <<
       [pattern |-> <<"a", "t", "t", "r", "i", "b", "u", "t", "e", "s">>,
        value |-> AnnotationType("Attributes", Unit)],
       [pattern |-> <<"a", "u", "t", "o", "_", "a", "n", "n", "o", "t", "a", "t", "e">>,
        value |-> AnnotationType("AutoAnnotate", Unit)],
       [pattern |-> <<"b", "o", "u", "n", "d", "i", "n", "g", "_", "b", "o", "x">>,
        value |-> AnnotationType("BoundingBox", BoundingBoxDefault)],
       [pattern |-> <<"c", "u", "b", "o", "i", "d">>,
        value |-> AnnotationType("Cuboid", Unit)],
       [pattern |-> <<"d", "i", "r", "e", "c", "t", "i", "o", "n", "a", "l", "_", "v", "e", "c", "t", "o", "r">>,
        value |-> AnnotationType("DirectionalVector", Unit)],
       [pattern |-> <<"e", "l", "l", "i", "p", "s", "e">>,
        value |-> AnnotationType("Ellipse", Unit)],
       [pattern |-> <<"i", "n", "f", "e", "r", "e", "n", "c", "e">>,
        value |-> AnnotationType("Inference", Unit)],
       [pattern |-> <<"i", "n", "s", "t", "a", "n", "c", "e", "_", "i", "d">>,
        value |-> AnnotationType("InstanceId", Unit)],
       [pattern |-> <<"k", "e", "y", "p", "o", "i", "n", "t">>,
        value |-> AnnotationType("Keypoint", KeypointDefault)],
       [pattern |-> <<"l", "i", "n", "e">>,
        value |-> AnnotationType("Line", Unit)],
       [pattern |-> <<"m", "e", "a", "s", "u", "r", "e", "s">>,
        value |-> AnnotationType("Measures", Unit)],
       [pattern |-> <<"p", "o", "l", "y", "g", "o", "n">>,
        value |-> AnnotationType("Polygon", PolygonDefault)],
       [pattern |-> <<"s", "k", "e", "l", "e", "t", "o", "n">>,
        value |-> AnnotationType("Skeleton", Unit)],
       [pattern |-> <<"t", "a", "g">>,
        value |-> AnnotationType("Tag", Tag)],
       [pattern |-> <<"t", "e", "x", "t">>,
        value |-> AnnotationType("Tag", Tag)]
    >>

\* the message of the error try_from bails with
NotValidMsg(value) == <<value, " is not a valid annotation type">>

\* try_from that formats the lowered string into its error
TryFromNamingLowered(value) ==
    LET lower == ToLowercase(value)
        hits == {i \in DOMAIN TryFromArms : TryFromArms[i].pattern = lower}
    IN  IF hits = {}
        THEN Err([kind |-> "anyhow", msg |-> NotValidMsg(lower)])
        ELSE Ok(TryFromArms[FirstOf(hits)].value)

\* AnnotationType::try_from
TryFrom(value) ==
    LET lower == ToLowercase(value)
        hits == {i \in DOMAIN TryFromArms : TryFromArms[i].pattern = lower}
    IN  IF hits = {}
        THEN Err([kind |-> "anyhow", msg |-> NotValidMsg(value)])
        ELSE Ok(TryFromArms[FirstOf(hits)].value)

UnitVariants ==
    {"Attributes", "AutoAnnotate", "Cuboid", "DirectionalVector", "Ellipse",
     "Inference", "InstanceId", "Line", "Measures", "Skeleton", "RasterLayer"}

\* the values of annotation::AnnotationType of the model: every variant,
\* and a range of payloads for the variants that carry one
AnnotationTypes ==
    LET OptionF32s == {None, Some(Fin(1)), Some(NaN)}
    IN  {AnnotationType(v, Unit) : v \in UnitVariants}
          \cup {AnnotationType("BoundingBox", BoundingBox(h, w, x, y)) :
                   h \in OptionF32s, w \in OptionF32s,
                   x \in OptionF32s, y \in OptionF32s}
          \cup {AnnotationType("Keypoint", Keypoint(x, y)) :
                   x \in Floats, y \in Floats}
          \cup {AnnotationType("Polygon", Polygon(ps)) :
                   ps \in UNION {[1..n -> Paths] : n \in 0..1}}
          \cup {AnnotationType("Tag", Tag)}
          \cup {AnnotationType("Text", Text(t)) : t \in {"", "a note"}}

TeamAnnotationTypes ==
    {TeamAnnotationType(v) :
        v \in (UnitVariants \ {"RasterLayer"})
                 \cup {"BoundingBox", "Keypoint", "Polygon", "Tag", "Text"}}

\* strings a caller may hand to try_from: every name of the match in lower,
\* upper and capitalised spelling, and strings outside the match
TryFromArgs ==
    {
      <<"a", "t", "t", "r", "i", "b", "u", "t", "e", "s">>,
      <<"A", "T", "T", "R", "I", "B", "U", "T", "E", "S">>,
      <<"A", "t", "t", "r", "i", "b", "u", "t", "e", "s">>,
      <<"a", "u", "t", "o", "_", "a", "n", "n", "o", "t", "a", "t", "e">>,
      <<"A", "U", "T", "O", "_", "A", "N", "N", "O", "T", "A", "T", "E">>,
      <<"A", "u", "t", "o", "_", "a", "n", "n", "o", "t", "a", "t", "e">>,
      <<"b", "o", "u", "n", "d", "i", "n", "g", "_", "b", "o", "x">>,
      <<"B", "O", "U", "N", "D", "I", "N", "G", "_", "B", "O", "X">>,
      <<"B", "o", "u", "n", "d", "i", "n", "g", "_", "b", "o", "x">>,
      <<"c", "u", "b", "o", "i", "d">>,
      <<"C", "U", "B", "O", "I", "D">>,
      <<"C", "u", "b", "o", "i", "d">>,
      <<"d", "i", "r", "e", "c", "t", "i", "o", "n", "a", "l", "_", "v", "e", "c", "t", "o", "r">>,
      <<"D", "I", "R", "E", "C", "T", "I", "O", "N", "A", "L", "_", "V", "E", "C", "T", "O", "R">>,
      <<"D", "i", "r", "e", "c", "t", "i", "o", "n", "a", "l", "_", "v", "e", "c", "t", "o", "r">>,
      <<"e", "l", "l", "i", "p", "s", "e">>,
      <<"E", "L", "L", "I", "P", "S", "E">>,
      <<"E", "l", "l", "i", "p", "s", "e">>,
      <<"i", "n", "f", "e", "r", "e", "n", "c", "e">>,
      <<"I", "N", "F", "E", "R", "E", "N", "C", "E">>,
      <<"I", "n", "f", "e", "r", "e", "n", "c", "e">>,
      <<"i", "n", "s", "t", "a", "n", "c", "e", "_", "i", "d">>,
      <<"I", "N", "S", "T", "A", "N", "C", "E", "_", "I", "D">>,
      <<"I", "n", "s", "t", "a", "n", "c", "e", "_", "i", "d">>,
      <<"k", "e", "y", "p", "o", "i", "n", "t">>,
      <<"K", "E", "Y", "P", "O", "I", "N", "T">>,
      <<"K", "e", "y", "p", "o", "i", "n", "t">>,
      <<"l", "i", "n", "e">>,
      <<"L", "I", "N", "E">>,
      <<"L", "i", "n", "e">>,
      <<"m", "e", "a", "s", "u", "r", "e", "s">>,
      <<"M", "E", "A", "S", "U", "R", "E", "S">>,
      <<"M", "e", "a", "s", "u", "r", "e", "s">>,
      <<"p", "o", "l", "y", "g", "o", "n">>,
      <<"P", "O", "L", "Y", "G", "O", "N">>,
      <<"P", "o", "l", "y", "g", "o", "n">>,
      <<"s", "k", "e", "l", "e", "t", "o", "n">>,
      <<"S", "K", "E", "L", "E", "T", "O", "N">>,
      <<"S", "k", "e", "l", "e", "t", "o", "n">>,
      <<"t", "a", "g">>,
      <<"T", "A", "G">>,
      <<"T", "a", "g">>,
      <<"t", "e", "x", "t">>,
      <<"T", "E", "X", "T">>,
      <<"T", "e", "x", "t">>,
      <<"r", "a", "s", "t", "e", "r", "_", "l", "a", "y", "e", "r">>,
      <<"R", "a", "s", "t", "e", "r", "_", "L", "a", "y", "e", "r">>,
      <<"c", "o", "m", "p", "l", "e", "x", "_", "p", "o", "l", "y", "g", "o", "n">>,
      <<"m", "a", "s", "k">>,
      <<"M", "A", "S", "K">>,
      <<"t", "a", "g", "s">>,
      <<"T", "a", "g", " ">>,
      <<"b", "o", "u", "n", "d", "i", "n", "g", " ", "b", "o", "x">>,
      <<"B", "o", "u", "n", "d", "i", "n", "g", "B", "o", "x">>,
      <<>>
    }

\* u32::from(value) on an annotation::AnnotationType
CallU32From ==
    /\ typeCall = NoCall
    /\ \E value \in AnnotationTypes :
        /\ typeCall' = [fn |-> "u32::from", value |-> value]
        /\ typeRet' = U32From(value)
        /\ UNCHANGED <<codecVars, eqVars, importVars, exportVars, parallelVars, apiVars>>

\* value.into() on a team::AnnotationType
CallTeamInto ==
    /\ typeCall = NoCall
    /\ \E value \in TeamAnnotationTypes :
        /\ typeCall' = [fn |-> "into", value |-> value]
        /\ typeRet' = TeamInto(value)
        /\ UNCHANGED <<codecVars, eqVars, importVars, exportVars, parallelVars, apiVars>>

\* AnnotationType::try_from(value)
CallTryFrom ==
    /\ typeCall = NoCall
    /\ \E value \in TryFromArgs :
        /\ typeCall' = [fn |-> "try_from", value |-> value]
        /\ typeRet' = TryFrom(value)
        /\ UNCHANGED <<codecVars, eqVars, importVars, exportVars, parallelVars, apiVars>>

NextType == CallU32From \/ CallTeamInto \/ CallTryFrom
SpecType == Init /\ [][NextType]_vars

----------------------------------------------------------------------------
(* Claims on the annotation type model.                                    *)

\* the code table of the specification
AssignedCodes ==
    [Tag |-> 1, BoundingBox |-> 2, Polygon |-> 3, Attributes |-> 5,
     Text |-> 6, Line |-> 11, Skeleton |-> 12]

CodeLookup == typeCall.fn \in {"u32::from", "into"}

\* C12: the numeric code of a Tag, BoundingBox, Polygon, Attributes, Text,
\* Line or Skeleton variant is the one of the fixed table (1, 2, 3, 5, 6,
\* 11, 12), whatever payload the variant carries.
C12_CodeTable ==
    (CodeLookup /\ typeCall.value.variant \in DOMAIN AssignedCodes)
        => typeRet = Ok(AssignedCodes[typeCall.value.variant])

\* a bounding box with a payload of its own has been looked up
C12_Witness ==
    /\ typeCall.fn = "u32::from"
    /\ typeCall.value.variant = "BoundingBox"
    /\ typeCall.value.payload # BoundingBoxDefault
    /\ typeRet = Ok(2)

\* C13: the code lookup on a variant without an assigned code ends in an
\* error outcome: it neither panics nor returns a number.
C13_UnassignedIsError ==
    (CodeLookup /\ typeCall.value.variant \notin DOMAIN AssignedCodes)
        => /\ ~typeRet.ok
           /\ "err" \in DOMAIN typeRet

KnownNames == {TryFromArms[i].pattern : i \in DOMAIN TryFromArms}

\* C14: try_from on a string that is none of the known annotation type
\* names (compared without regard to case) fails, and the message of the
\* error carries the string exactly as the caller gave it.
C14_UnknownNameIsError ==
    (typeCall.fn = "try_from" /\ ToLowercase(typeCall.value) \notin KnownNames)
        => /\ ~typeRet.ok
           /\ "err" \in DOMAIN typeRet
           /\ typeRet.err.msg[1] = typeCall.value
           /\ typeRet.err.msg[2] = " is not a valid annotation type"

\* an unknown name with upper-case letters has been rejected
C14_Witness ==
    /\ typeCall.fn = "try_from"
    /\ typeCall.value # ToLowercase(typeCall.value)
    /\ ToLowercase(typeCall.value) \notin KnownNames
    /\ ~typeRet.ok

----------------------------------------------------------------------------
(* The export annotation codec (src/src/export.rs): ImageAnnotation with   *)
(* its two geometry slots, decoded and encoded by the derived serde code,  *)
(* and the untagged AnnotationType behind the slots. The keys of these     *)
(* documents are only compared, so they are kept as strings.               *)

JObject(entries) == [t |-> "object", entries |-> entries]
JArray(items) == [t |-> "array", items |-> items]

\* the positions of key k in the entries of an object
At(entries, k) == {i \in DOMAIN entries : entries[i].key = k}

DuplicateField(f) == [kind |-> "duplicate_field", field |-> f]
NoVariantMatched ==
    [kind |-> "custom",
     msg |-> "data did not match any variant of untagged enum AnnotationType"]

\* Option<f32>: null is None, a number is Some
DeOptionF32(j) ==
    IF j.t = "null" THEN Ok(None)
    ELSE IF j.t = "number" THEN Ok(Some(Fin(j.n)))
    ELSE Err(InvalidType("f32"))
SerOptionF32(o) == IF o.some THEN SerF32(o.v) ELSE JNull

\* Option<String>: null is None, a string is Some
DeOptionString(j) ==
    IF j.t = "null" THEN Ok(None)
    ELSE IF j.t = "string" THEN Ok(Some(j.s))
    ELSE Err(InvalidType("a string"))

\* #[derive(Deserialize)] for BoundingBox: every field is optional and a
\* key that is no field is skipped; read from an array, the four elements
\* are the fields in order
DeBoundingBox(j) ==
    IF j.t = "object"
    THEN LET names == {"h", "w", "x", "y"}
             field(k) == IF At(j.entries, k) = {} THEN Ok(None)
                         ELSE DeOptionF32(j.entries[FirstOf(At(j.entries, k))].val)
         IN  IF \E k \in names : Cardinality(At(j.entries, k)) > 1 \/ ~field(k).ok
             THEN Err(InvalidType("struct BoundingBox"))
             ELSE Ok(BoundingBox(field("h").val, field("w").val,
                                 field("x").val, field("y").val))
    ELSE IF j.t = "array" /\ Len(j.items) = 4
                          /\ \A i \in 1..4 : DeOptionF32(j.items[i]).ok
    THEN Ok(BoundingBox(DeOptionF32(j.items[1]).val, DeOptionF32(j.items[2]).val,
                        DeOptionF32(j.items[3]).val, DeOptionF32(j.items[4]).val))
    ELSE Err(InvalidType("struct BoundingBox"))

\* #[derive(Deserialize)] for Keypoint: x and y are required numbers
DeKeypoint(j) ==
    IF j.t = "object"
    THEN LET good(k) == /\ Cardinality(At(j.entries, k)) = 1
                        /\ DeF32(j.entries[FirstOf(At(j.entries, k))].val).ok
             field(k) == DeF32(j.entries[FirstOf(At(j.entries, k))].val).val
         IN  IF good("x") /\ good("y")
             THEN Ok(Keypoint(field("x"), field("y")))
             ELSE Err(InvalidType("struct Keypoint"))
    ELSE IF j.t = "array" /\ Len(j.items) = 2
                          /\ \A i \in 1..2 : DeF32(j.items[i]).ok
    THEN Ok(Keypoint(DeF32(j.items[1]).val, DeF32(j.items[2]).val))
    ELSE Err(InvalidType("struct Keypoint"))

\* Vec<Vec<Keypoint>>: an array of arrays of keypoints
DePaths(j) ==
    IF /\ j.t = "array"
       /\ \A i \in DOMAIN j.items :
            /\ j.items[i].t = "array"
            /\ \A k \in DOMAIN j.items[i].items :
                   DeKeypoint(j.items[i].items[k]).ok
    THEN Ok([i \in DOMAIN j.items |->
                [k \in DOMAIN j.items[i].items |->
                    DeKeypoint(j.items[i].items[k]).val]])
    ELSE Err(InvalidType("a sequence"))

\* #[derive(Deserialize)] for Polygon: paths is required
DePolygon(j) ==
    IF j.t = "object"
    THEN IF /\ Cardinality(At(j.entries, "paths")) = 1
            /\ DePaths(j.entries[FirstOf(At(j.entries, "paths"))].val).ok
         THEN Ok(Polygon(DePaths(j.entries[FirstOf(At(j.entries, "paths"))].val).val))
         ELSE Err(InvalidType("struct Polygon"))
    ELSE IF j.t = "array" /\ Len(j.items) = 1 /\ DePaths(j.items[1]).ok
    THEN Ok(Polygon(DePaths(j.items[1]).val))
    ELSE Err(InvalidType("struct Polygon"))

\* #[derive(Deserialize)] for Tag, a struct without fields: any object, and
\* the empty array
DeTag(j) ==
    IF j.t = "object" \/ (j.t = "array" /\ Len(j.items) = 0)
    THEN Ok(Tag)
    ELSE Err(InvalidType("struct Tag"))

\* #[derive(Deserialize)] for Text: text is a required string
DeText(j) ==
    IF j.t = "object"
    THEN IF /\ Cardinality(At(j.entries, "text")) = 1
            /\ j.entries[FirstOf(At(j.entries, "text"))].val.t = "string"
         THEN Ok(Text(j.entries[FirstOf(At(j.entries, "text"))].val.s))
         ELSE Err(InvalidType("struct Text"))
    ELSE IF j.t = "array" /\ Len(j.items) = 1 /\ j.items[1].t = "string"
    THEN Ok(Text(j.items[1].s))
    ELSE Err(InvalidType("struct Text"))

\* #[serde(untagged)] Deserialize for AnnotationType: the variants are tried
\* in declaration order and the first that reads the value wins. A variant
\* without payload reads null only, so Attributes takes null and no other
\* unit variant is ever produced.
DeAnnotationType(j) ==
    IF j.t = "null" THEN Ok(AnnotationType("Attributes", Unit))
    ELSE IF DeBoundingBox(j).ok
    THEN Ok(AnnotationType("BoundingBox", DeBoundingBox(j).val))
    ELSE IF DeKeypoint(j).ok
    THEN Ok(AnnotationType("Keypoint", DeKeypoint(j).val))
    ELSE IF DePolygon(j).ok
    THEN Ok(AnnotationType("Polygon", DePolygon(j).val))
    ELSE IF DeTag(j).ok
    THEN Ok(AnnotationType("Tag", Tag))
    ELSE IF DeText(j).ok
    THEN Ok(AnnotationType("Text", DeText(j).val))
    ELSE Err(NoVariantMatched)

\* Option<AnnotationType>: null is None before any variant is tried
DeOptionAnnotationType(j) ==
    IF j.t = "null" THEN Ok(None)
    ELSE IF DeAnnotationType(j).ok THEN Ok(Some(DeAnnotationType(j).val))
    ELSE DeAnnotationType(j)

Annotator(email, full_name) == [email |-> email, full_name |-> full_name]

\* #[derive(Deserialize)] for Annotator, read from an object
DeAnnotator(j) ==
    IF /\ j.t = "object"
       /\ \A k \in {"email", "full_name"} :
            /\ Cardinality(At(j.entries, k)) = 1
            /\ j.entries[FirstOf(At(j.entries, k))].val.t = "string"
    THEN Ok(Annotator(j.entries[FirstOf(At(j.entries, "email"))].val.s,
                      j.entries[FirstOf(At(j.entries, "full_name"))].val.s))
    ELSE Err(InvalidType("struct Annotator"))

\* Option<Vec<Annotator>>
DeOptionAnnotators(j) ==
    IF j.t = "null" THEN Ok(None)
    ELSE IF j.t = "array" /\ \A i \in DOMAIN j.items : DeAnnotator(j.items[i]).ok
    THEN Ok(Some([i \in DOMAIN j.items |-> DeAnnotator(j.items[i]).val]))
    ELSE Err(InvalidType("a sequence"))

\* export::ImageAnnotation
ExportImageAnnotation(id, name, annotators, reviewers, annotation_type_1, annotation_type_2) ==
    [id |-> id, name |-> name, annotators |-> annotators,
     reviewers |-> reviewers, annotation_type_1 |-> annotation_type_1,
     annotation_type_2 |-> annotation_type_2]

\* the field of ImageAnnotation a key is bound to, by name or by alias
FieldOf(key) ==
    CASE key \in {"id", "name", "annotators", "reviewers"} -> key
      [] key \in {"annotation_type_1", "bounding_box", "cuboid", "skeleton", "tag"}
            -> "annotation_type_1"
      [] key \in {"annotation_type_2", "keypoint", "polygon", "complex_polygon"}
            -> "annotation_type_2"
      [] OTHER -> "ignored"

\* the decoder of each field of ImageAnnotation
DeAnnotationField(field, j) ==
    CASE field = "id" -> DeOptionString(j)
      [] field = "name" -> DeString(j)
      [] field \in {"annotators", "reviewers"} -> DeOptionAnnotators(j)
      [] OTHER -> DeOptionAnnotationType(j)

\* no field has been read yet
NothingSeen ==
    [id |-> None, name |-> None, annotators |-> None, reviewers |-> None,
     annotation_type_1 |-> None, annotation_type_2 |-> None]

\* a field the object did not carry
Unseen(seen, field) == IF seen[field].some THEN seen[field].v ELSE None

\* the end of visit_map, with the two slots required as name is
FinishRequiringSlots(seen) ==
    IF ~seen.name.some THEN Err(MissingField("name"))
    ELSE IF ~seen.annotation_type_1.some THEN Err(MissingField("annotation_type_1"))
    ELSE IF ~seen.annotation_type_2.some THEN Err(MissingField("annotation_type_2"))
    ELSE Ok(ExportImageAnnotation(Unseen(seen, "id"), seen.name.v,
                Unseen(seen, "annotators"), Unseen(seen, "reviewers"),
                seen.annotation_type_1.v, seen.annotation_type_2.v))

\* the end of visit_map: name is required, a missing Option field is None
Finish(seen) ==
    IF ~seen.name.some THEN Err(MissingField("name"))
    ELSE Ok(ExportImageAnnotation(Unseen(seen, "id"), seen.name.v,
                Unseen(seen, "annotators"), Unseen(seen, "reviewers"),
                Unseen(seen, "annotation_type_1"),
                Unseen(seen, "annotation_type_2")))

\* the loop of visit_map over the entries in document order: a key of no
\* field is skipped, a field met a second time (under any of its keys) is
\* an error, and so is a value its field does not read
RECURSIVE VisitAnnotationEntries(_, _)
VisitAnnotationEntries(entries, seen) ==
    IF entries = <<>> THEN Finish(seen)
    ELSE LET e == Head(entries)
             field == FieldOf(e.key)
         IN  IF field = "ignored"
             THEN VisitAnnotationEntries(Tail(entries), seen)
             ELSE IF seen[field].some THEN Err(DuplicateField(field))
             ELSE LET r == DeAnnotationField(field, e.val)
                  IN  IF ~r.ok THEN r
                      ELSE VisitAnnotationEntries(Tail(entries),
                               [seen EXCEPT ![field] = Some(r.val)])

\* #[derive(Deserialize)] for ImageAnnotation
DeImageAnnotation(entries) == VisitAnnotationEntries(entries, NothingSeen)

SerKeypoint(k) == JObject(<<Entry("x", SerF32(k.x)), Entry("y", SerF32(k.y))>>)

\* #[serde(untagged)] Serialize for AnnotationType: a variant with a payload
\* is written as its payload, a variant without one as null
SerAnnotationType(a) ==
    CASE a.variant = "BoundingBox" ->
            JObject(<<Entry("h", SerOptionF32(a.payload.h)),
                      Entry("w", SerOptionF32(a.payload.w)),
                      Entry("x", SerOptionF32(a.payload.x)),
                      Entry("y", SerOptionF32(a.payload.y))>>)
      [] a.variant = "Keypoint" -> SerKeypoint(a.payload)
      [] a.variant = "Polygon" ->
            JObject(<<Entry("paths",
                JArray([i \in DOMAIN a.payload.paths |->
                    JArray([k \in DOMAIN a.payload.paths[i] |->
                        SerKeypoint(a.payload.paths[i][k])])]))>>)
      [] a.variant = "Tag" -> JObject(<<>>)
      [] a.variant = "Text" -> JObject(<<Entry("text", JStr(a.payload.text))>>)
      [] OTHER -> JNull

SerOptionAnnotationType(o) == IF o.some THEN SerAnnotationType(o.v) ELSE JNull

SerAnnotator(a) ==
    JObject(<<Entry("email", JStr(a.email)), Entry("full_name", JStr(a.full_name))>>)

SerOptionAnnotators(o) ==
    IF o.some THEN JArray([i \in DOMAIN o.v |-> SerAnnotator(o.v[i])]) ELSE JNull

\* #[derive(Serialize)] for ImageAnnotation: every field under its own
\* name, in declaration order, None as null
SerImageAnnotation(a) ==
    <<Entry("id", SerOptionString(a.id)),
      Entry("name", JStr(a.name)),
      Entry("annotators", SerOptionAnnotators(a.annotators)),
      Entry("reviewers", SerOptionAnnotators(a.reviewers)),
      Entry("annotation_type_1", SerOptionAnnotationType(a.annotation_type_1)),
      Entry("annotation_type_2", SerOptionAnnotationType(a.annotation_type_2))>>

\* geometry payloads of the export format, and payloads that only a later
\* variant of the enum reads (paths, labelled_box, text_array, point_array)
ExportPayloads ==
    LET point == JObject(<<Entry("x", JFloat(1)), Entry("y", JFloat(2))>>)
    IN  [bounding_box |->
             JObject(<<Entry("h", JFloat(4)), Entry("w", JFloat(3)),
                       Entry("x", JFloat(1)), Entry("y", JFloat(2))>>),
         point |-> point,
         polygon |-> JObject(<<Entry("path", JArray(<<point>>))>>),
         complex_polygon |->
             JObject(<<Entry("path", JArray(<<JArray(<<point>>),
                                              JArray(<<point>>)>>))>>),
         tag |-> JObject(<<>>),
         skeleton |-> JObject(<<Entry("nodes", JArray(<<>>))>>),
         text |-> JObject(<<Entry("text", JStr("a note"))>>),
         paths |->
             JObject(<<Entry("paths", JArray(<<JArray(<<point>>)>>)),
                       Entry("x", JStr("left"))>>),
         labelled_box |-> JObject(<<Entry("h", JStr("tall"))>>),
         text_array |-> JArray(<<JStr("a note")>>),
         point_array |-> JArray(<<JFloat(1), JFloat(2)>>)]

\* the geometry entries the platform may send
GeometryEntries ==
    { Entry("bounding_box", ExportPayloads.bounding_box),
      Entry("bounding_box", ExportPayloads.labelled_box),
      Entry("bounding_box", JNull),
      Entry("tag", ExportPayloads.tag),
      Entry("cuboid", ExportPayloads.tag),
      Entry("skeleton", ExportPayloads.skeleton),
      Entry("keypoint", ExportPayloads.point),
      Entry("keypoint", ExportPayloads.point_array),
      Entry("polygon", ExportPayloads.polygon),
      Entry("polygon", ExportPayloads.paths),
      Entry("polygon", JStr("none")),
      Entry("complex_polygon", ExportPayloads.complex_polygon),
      Entry("text", ExportPayloads.text),
      Entry("text", ExportPayloads.text_array),
      Entry("annotation_type_2", ExportPayloads.text_array) }

GeometryLists == UNION {[1..n -> GeometryEntries] : n \in 0..MaxGeometry}

\* the other entries of an annotation
BaseLists ==
    { <<Entry("name", JStr("Cheese"))>>,
      <<Entry("id", JStr("770e4a19")), Entry("name", JStr("Cheese"))>>,
      <<Entry("annotators",
              JArray(<<JObject(<<Entry("email", JStr("abc.xyz@cheese.com")),
                                 Entry("full_name", JStr("ABC XYZ"))>>)>>)),
        Entry("id", JNull),
        Entry("name", JStr("something")),
        Entry("updated_at", JStr("2023-08-03T03:04:37"))>>,
      <<Entry("id", JStr("770e4a19"))>> }

PlatformAnnotations ==
    {g \o b : g \in GeometryLists, b \in BaseLists}
        \cup {b \o g : g \in GeometryLists, b \in BaseLists}

\* the geometry an in-memory annotation may hold in a slot
SlotValues ==
    { None,
      Some(AnnotationType("BoundingBox",
               BoundingBox(Some(Fin(4)), Some(Fin(3)), Some(Fin(1)), Some(Fin(2))))),
      Some(AnnotationType("Keypoint", Keypoint(Fin(1), Fin(2)))),
      Some(AnnotationType("Polygon", Polygon(<<<<Keypoint(Fin(1), Fin(2))>>>>))),
      Some(AnnotationType("Tag", Tag)),
      Some(AnnotationType("Text", Text("a note"))),
      Some(AnnotationType("Skeleton", Unit)) }

ExportAnnotations ==
    {ExportImageAnnotation(id, "Cheese", None, rs, a1, a2) :
        id \in {None, Some("770e4a19")},
        rs \in {None, Some(<<Annotator("abc.xyz@cheese.com", "ABC XYZ")>>)},
        a1 \in SlotValues, a2 \in SlotValues}

\* serde_json::to_string(&annotation)
EncodeAnnotation ==
    /\ docOrigin = "none"
    /\ \E a \in ExportAnnotations :
        /\ annotation' = a
        /\ doc' = SerImageAnnotation(a)
        /\ docOrigin' = "encoder"
        /\ docDecoded' = Pending
        /\ UNCHANGED <<codecVars, eqVars, importVars, typeVars, parallelVars, apiVars>>

\* an annotation of an export file arrives
ReceiveAnnotation ==
    /\ docOrigin = "none"
    /\ \E j \in PlatformAnnotations :
        /\ annotation' = NoAnnotation
        /\ doc' = j
        /\ docOrigin' = "platform"
        /\ docDecoded' = Pending
        /\ UNCHANGED <<codecVars, eqVars, importVars, typeVars, parallelVars, apiVars>>

\* serde_json::from_str::<ImageAnnotation>(doc)
DecodeAnnotation ==
    /\ docOrigin # "none"
    /\ docDecoded = Pending
    /\ docDecoded' = DeImageAnnotation(doc)
    /\ UNCHANGED <<annotation, doc, docOrigin>>
    /\ UNCHANGED <<codecVars, eqVars, importVars, typeVars, parallelVars, apiVars>>

NextExport == EncodeAnnotation \/ ReceiveAnnotation \/ DecodeAnnotation
SpecExport == Init /\ [][NextExport]_vars

----------------------------------------------------------------------------
(* Claims on the export annotation codec.                                  *)

\* the geometry keys of the export format, by the slot they are bound to
Slot1Keys == {"bounding_box", "cuboid", "skeleton", "tag"}
Slot2Keys == {"keypoint", "polygon", "complex_polygon"}
GeometryKeys == Slot1Keys \cup Slot2Keys
BaseFieldKeys == {"id", "name", "annotators", "reviewers"}

GeometryAt == {i \in DOMAIN doc : doc[i].key \in GeometryKeys}
KeysOf(entries) == {entries[i].key : i \in DOMAIN entries}

\* a platform annotation with a name and no key but those of the export
\* format has been decoded
PlainDecoded ==
    /\ docOrigin = "platform"
    /\ docDecoded # Pending
    /\ "name" \in KeysOf(doc)
    /\ KeysOf(doc) \cap {"annotation_type_1", "annotation_type_2"} = {}

\* the payload the export format carries under each geometry key
TypicalPayload ==
    [bounding_box |-> ExportPayloads.bounding_box, cuboid |-> ExportPayloads.tag,
     skeleton |-> ExportPayloads.skeleton, tag |-> ExportPayloads.tag,
     keypoint |-> ExportPayloads.point, polygon |-> ExportPayloads.polygon,
     complex_polygon |-> ExportPayloads.complex_polygon]
Typical(e) == e.val = TypicalPayload[e.key]

VariantOfKey == [bounding_box |-> "BoundingBox", polygon |-> "Polygon", tag |-> "Tag"]

\* the decoded slot a geometry key is bound to
SlotOf(key) ==
    IF key \in Slot1Keys THEN docDecoded.val.annotation_type_1
    ELSE docDecoded.val.annotation_type_2

\* C15: decoding an annotation that carries one geometry key (polygon, tag
\* or bounding_box, with the payload of that key) constructs the variant
\* of that key in its slot, a bounding box with its x, y, w and h.
C15_KeyGivesVariant ==
    (PlainDecoded /\ Cardinality(GeometryAt) = 1)
        => LET e == doc[FirstOf(GeometryAt)]
           IN  (e.key \in DOMAIN VariantOfKey /\ Typical(e))
                   => /\ docDecoded.ok
                      /\ SlotOf(e.key).some
                      /\ SlotOf(e.key).v.variant = VariantOfKey[e.key]
                      /\ e.key = "bounding_box"
                             => SlotOf(e.key).v.payload
                                  = BoundingBox(Some(Fin(4)), Some(Fin(3)),
                                                Some(Fin(1)), Some(Fin(2)))

KeyOfVariant ==
    [BoundingBox |-> "bounding_box", Keypoint |-> "keypoint",
     Polygon |-> "polygon", Tag |-> "tag", Text |-> "text",
     Skeleton |-> "skeleton"]

\* the one geometry value of the encoded annotation, when it holds just one
OnlyGeometry ==
    IF annotation.annotation_type_1.some THEN annotation.annotation_type_1.v
    ELSE annotation.annotation_type_2.v

\* C16: encoding an annotation that holds one geometry value writes just
\* one geometry field, the one named after the active variant; no other
\* geometry field is in the object, not even as null.
C16_EncodeOneGeometryField ==
    (/\ docOrigin = "encoder"
     /\ annotation.annotation_type_1.some # annotation.annotation_type_2.some)
        => LET geometry == {i \in DOMAIN doc : doc[i].key \notin BaseFieldKeys}
           IN  /\ Cardinality(geometry) = 1
               /\ \A i \in geometry :
                    /\ doc[i].key = KeyOfVariant[OnlyGeometry.variant]
                    /\ doc[i].val.t # "null"

\* no key of the document is bound to the slot, its field name included
Slot1Absent == KeysOf(doc) \cap (Slot1Keys \cup {"annotation_type_1"}) = {}
Slot2Absent == KeysOf(doc) \cap (Slot2Keys \cup {"annotation_type_2"}) = {}

\* C17: an annotation without any of the keys of a slot decodes with that
\* slot None: the missing slot is never the reason of a failure, and an
\* annotation with a name and no geometry key at all decodes.
C17_AbsentSlotIsNone ==
    docDecoded # Pending
        => /\ (Slot1Absent /\ docDecoded.ok)
                 => docDecoded.val.annotation_type_1 = None
           /\ (Slot2Absent /\ docDecoded.ok)
                 => docDecoded.val.annotation_type_2 = None
           /\ (Slot1Absent \/ Slot2Absent) /\ ~docDecoded.ok
                 /\ docDecoded.err.kind = "missing_field"
                 => docDecoded.err.field = "name"
           /\ (Slot1Absent /\ Slot2Absent /\ "name" \in KeysOf(doc))
                 => docDecoded.ok

\* an annotation that carries a key of no slot has been decoded with both
\* slots None
C17_Witness ==
    /\ docOrigin = "platform"
    /\ docDecoded # Pending
    /\ "text" \in KeysOf(doc)
    /\ Slot1Absent /\ Slot2Absent
    /\ docDecoded.ok
    /\ docDecoded.val.annotation_type_1 = None
    /\ docDecoded.val.annotation_type_2 = None

\* the members of a payload are all members of what the slot value holds
Kept(e) ==
    LET held == SerAnnotationType(SlotOf(e.key).v)
    IN  /\ held.t = "object"
        /\ KeysOf(e.val.entries) \subseteq KeysOf(held.entries)

\* C18: an annotation with one key of slot 1 and one key of slot 2, each
\* with its payload, decodes with both slots populated and nothing of
\* either payload dropped.
C18_BothSlotsKept ==
    (/\ PlainDecoded
     /\ Cardinality(GeometryAt) = 2
     /\ \E i \in GeometryAt : doc[i].key \in Slot1Keys
     /\ \E i \in GeometryAt : doc[i].key \in Slot2Keys
     /\ \A i \in GeometryAt : Typical(doc[i]))
        => /\ docDecoded.ok
           /\ docDecoded.val.annotation_type_1.some
           /\ docDecoded.val.annotation_type_2.some
           /\ \A i \in GeometryAt : Kept(doc[i])

\* the documents that differ from doc in the order of the geometry entries
Reordered ==
    {[i \in DOMAIN doc |-> IF i \in GeometryAt THEN doc[p[i]] ELSE doc[i]] :
        p \in {q \in [GeometryAt -> GeometryAt] :
                  \A a, b \in GeometryAt : q[a] = q[b] => a = b}}

\* C19: an annotation with more than one geometry key, two keys of the
\* same slot included, decodes: the extra key is no failure, and the
\* result does not depend on the order of the keys.
C19_ExtraKeyTolerated ==
    (/\ PlainDecoded
     /\ Cardinality(GeometryAt) >= 2
     /\ \A i, k \in GeometryAt : doc[i].key = doc[k].key => i = k
     /\ \A i \in GeometryAt : Typical(doc[i]))
        => /\ docDecoded.ok
           /\ \A other \in Reordered : DeImageAnnotation(other) = docDecoded

----------------------------------------------------------------------------
(* Claim on re-encoding a decoded Levels text.                             *)

Reencoded == decoded # Pending /\ reencoded # Pending

\* the text is level entries followed by one base_key entry, every level
\* under a key of its own spelled as the encoder spells it and written as
\* the encoder writes a level
CompactLevelsText(w) ==
    /\ WellFormed(w)
    /\ BaseKeyAt(w) = {Len(w)}
    /\ \A i \in NumericAt(w) :
          SerImageLevel(DeImageLevel(w[i].val).val) = w[i].val

EntriesOf(w) == {w[i] : i \in 1..Len(w)}

----------------------------------------------------------------------------
(* Claims on the failures of the Levels decoder and on a missing base_key. *)

\* the entries under a u32 key whose value is not shaped like an ImageLevel
MisshapenAt(w) ==
    {i \in NumericAt(w) : ParseU32(w[i].key).some /\ ~DeImageLevel(w[i].val).ok}

\* C21: a Levels object with a value under a numeric key that is not
\* shaped like an ImageLevel does not decode (the value is not skipped),
\* and the error carries that key.
C21_MisshapenLevelNamesKey ==
    (Decoded /\ MisshapenAt(wire) # {})
        => /\ ~decoded.ok
           /\ \E i \in MisshapenAt(wire) :
                 /\ "msg" \in DOMAIN decoded.err
                 /\ decoded.err.msg[2] = wire[i].key

\* C22: a Levels object in which "base_key" never appears, its levels well
\* formed, decodes to a Levels value whose base_key is None.
C22_MissingBaseKeyIsNone ==
    (/\ Decoded
     /\ BaseKeyAt(wire) = {}
     /\ \A i \in NumericAt(wire) :
           ParseU32(wire[i].key).some /\ DeImageLevel(wire[i].val).ok)
        => /\ decoded.ok
           /\ decoded.val.base_key = None

----------------------------------------------------------------------------
(* Concurrent import transformations (src/src/imports.rs): worker threads  *)
(* call the constructors over one shared candidate class list. A call      *)
(* walks the list one element at a time, so the calls of different workers *)
(* interleave between any two elements.                                    *)

\* an iterator that takes each class out of the shared list as it yields it
SliceIterTaking(classes, i) ==
    [item |-> classes[i],
     slice |-> [classes EXCEPT ![i] = AnnotationClass(None, None)]]

\* slice.iter() at position i: the element is read through a shared
\* borrow and the slice stays as it is
SliceIter(classes, i) == [item |-> classes[i], slice |-> classes]

\* the constructor's result once find_annotation_class_id has returned
Construct(fn, original_annotation, path, slot_name, class_id, uuid) ==
    IF ~class_id.ok THEN class_id
    ELSE Ok(AnnotationImportAnnotation(uuid,
                IF fn = "new_polygon_annotation"
                THEN AnnotationImportDataFrom(path)
                ELSE [polygon |-> None, tag |-> original_annotation.tag],
                class_id.val, <<slot_name>>))

\* the calls a worker may make
WorkerCalls ==
    {[fn |-> f, original_annotation |-> a, path |-> <<Keypoint(10, 10)>>,
      slot_name |-> "sample_slot"] :
        f \in {"new_polygon_annotation", "new_tag_annotation"},
        a \in {ImageAnnotation("Sample Class", None),
               ImageAnnotation("Other", Some(Tag))}}

\* the candidate lists the workers may share
SharedLists ==
    UNION {[1..n -> {AnnotationClass(None, Some(1)),
                     AnnotationClass(Some("Sample Class"), None),
                     AnnotationClass(Some("Sample Class"), Some(1)),
                     AnnotationClass(Some("Other"), Some(2))}] :
              n \in 0..MaxClasses}

\* the caller builds the candidate list the workers are given
ShareClasses ==
    /\ ~eligible.given
    /\ \E cs \in SharedLists :
        /\ eligible' = [given |-> TRUE, classes |-> cs]
        /\ UNCHANGED workers
        /\ UNCHANGED <<codecVars, eqVars, importVars, typeVars, exportVars, apiVars>>

\* worker w calls a constructor on the shared list
Begin(w) ==
    /\ eligible.given
    /\ workers[w].pc = "idle"
    /\ \E c \in WorkerCalls :
        /\ workers' = [workers EXCEPT ![w] =
               [pc |-> "find", call |-> c,
                eligible_annotation_classes |-> eligible.classes, next |-> 1]]
        /\ UNCHANGED eligible
        /\ UNCHANGED <<codecVars, eqVars, importVars, typeVars, exportVars, apiVars>>

\* the call of worker w returns result
Return(w, result) ==
    workers' = [workers EXCEPT ![w] =
        [pc |-> "done", call |-> workers[w].call,
         eligible_annotation_classes |-> workers[w].eligible_annotation_classes,
         result |-> result]]

\* one turn of find in the call of worker w: the list is exhausted, or the
\* closure is applied to the next element
FindStep(w) ==
    /\ workers[w].pc = "find"
    /\ LET c == workers[w].call
           i == workers[w].next
       IN  IF i > Len(eligible.classes)
           THEN /\ Return(w, Err(NoMatchMsg))
                /\ UNCHANGED eligible
           ELSE LET it == SliceIter(eligible.classes, i)
                    m == NameMatches(it.item, c.original_annotation.name)
                IN  /\ eligible' = [eligible EXCEPT !.classes = it.slice]
                    /\ IF m = "panic" THEN Return(w, Panicked)
                       ELSE IF m = "false"
                       THEN workers' = [workers EXCEPT ![w].next = i + 1]
                       ELSE \E u \in Uuids :
                              Return(w, Construct(c.fn, c.original_annotation,
                                         c.path, c.slot_name, IdOrError(it.item), u))
    /\ UNCHANGED <<codecVars, eqVars, importVars, typeVars, exportVars, apiVars>>

NextParallel == ShareClasses \/ \E w \in Workers : Begin(w) \/ FindStep(w)
SpecParallel == Init /\ [][NextParallel]_vars

----------------------------------------------------------------------------
(* Claim on the concurrent import transformations.                         *)

\* the outcome of the call of worker w run alone on its arguments
Alone(w, uuid) ==
    LET c == workers[w].call
    IN  IF c.fn = "new_polygon_annotation"
        THEN NewPolygonAnnotation(c.original_annotation, c.path,
                 workers[w].eligible_annotation_classes, c.slot_name, uuid)
        ELSE NewTagAnnotation(c.original_annotation,
                 workers[w].eligible_annotation_classes, c.slot_name, uuid)

\* two outcomes agree in everything but the generated identifier
SameOutcome(a, b) ==
    IF a.ok /\ b.ok
    THEN /\ a.val.annotation_class_id = b.val.annotation_class_id
         /\ a.val.data = b.val.data
         /\ a.val.context_keys = b.val.context_keys
    ELSE a = b

\* C24: in every interleaving of the calls of the workers over the shared
\* candidate list, a call that has returned has the outcome of the same
\* call run alone (success or failure, class id, data, slot names), and no
\* step changes the shared list or the arguments of a call under way.
C24_CallsIndependent ==
    /\ [](\A w \in Workers :
            workers[w].pc = "done"
                => \E u \in Uuids : SameOutcome(workers[w].result, Alone(w, u)))
    /\ [][/\ eligible.given => eligible' = eligible
          /\ \A w \in Workers :
                workers[w].pc # "idle"
                    => /\ workers'[w].call = workers[w].call
                       /\ workers'[w].eligible_annotation_classes
                              = workers[w].eligible_annotation_classes]_vars

\* one worker has returned an annotation while the other is part-way
\* through the list
C24_Witness ==
    \E w, v \in Workers :
        /\ workers[w].pc = "done"
        /\ workers[w].result.ok
        /\ workers[v].pc = "find"
        /\ workers[v].next > 1

----------------------------------------------------------------------------
(* Claim on a first match without an id.                                   *)

\* the classes of the annotation's name after the first that have an id
LaterMatchesWithId ==
    {i \in MatchIndexes :
        i > FirstOf(MatchIndexes) /\ call.eligible_annotation_classes[i].id.some}

\* C28: when the first class of the annotation's name has no id, the call
\* fails with the missing-id error even though a later class of the same
\* name has an id: the scan stops at the first match.
C28_NoFallThrough ==
    (Called /\ MatchIndexes # {} /\ ~FirstMatch.id.some /\ LaterMatchesWithId # {})
        => outcome = Err(NoIdMsg)

\* a class of the name without an id came first, one with an id later,
\* and the call failed for the missing id
C28_Witness ==
    /\ Called
    /\ MatchIndexes # {}
    /\ ~FirstMatch.id.some
    /\ LaterMatchesWithId # {}
    /\ outcome = Err(NoIdMsg)

----------------------------------------------------------------------------
(* Claim on the variant try_from returns for a known name.                 *)

\* the variant each annotation type name stands for, in the order of the
\* names of KnownNames in the match
VariantNames ==
    <<"Attributes", "AutoAnnotate", "BoundingBox", "Cuboid",
      "DirectionalVector", "Ellipse", "Inference", "InstanceId", "Keypoint",
      "Line", "Measures", "Polygon", "Skeleton", "Tag", "Text">>
VariantNamed(name) ==
    VariantNames[CHOOSE i \in DOMAIN TryFromArms : TryFromArms[i].pattern = name]

\* C27: try_from on a known annotation type name, in any letter case,
\* returns the variant of that name, and the numeric code of that variant,
\* when the table assigns one, is the code of the name (text is Text with
\* code 6, TAG is Tag with code 1).
C27_NameGivesItsVariant ==
    (typeCall.fn = "try_from" /\ ToLowercase(typeCall.value) \in KnownNames)
        => LET named == VariantNamed(ToLowercase(typeCall.value))
           IN  /\ typeRet.ok
               /\ typeRet.val.variant = named
               /\ named \in DOMAIN AssignedCodes
                     => U32From(typeRet.val) = Ok(AssignedCodes[named])

----------------------------------------------------------------------------
(* The API operations: a call checks its arguments, sends at most one      *)
(* request through the client, waits for the reply and returns.            *)

\* client.get / put / delete(..).await?: the call goes on with the response
\* once there is one; until then it is pending, and a failure of the send (a
\* reqwest::Error) is the error of the call
Unanswered(response) == response = Pending \/ ~response.ok
\* a call that ends before it sends anything
Refuse(msg) == [sent |-> <<>>, ret |-> Err([msg |-> msg])]

\* the fields of Dataset and the type inside the Option of each; the fields
\* marked serde(skip) are never read and hold their default
DatasetFields ==
    [active |-> "bool", archived |-> "bool", archived_at |-> "string",
     annotation_hotkeys |-> "map", annotators_can_create_tags |-> "bool",
     annotators_can_instantiate_workflows |-> "bool",
     anyone_can_double_assign |-> "bool",
     default_workflow_template_id |-> "u32", id |-> "u32",
     inserted_at |-> "string", instructions |-> "string", name |-> "string",
     num_annotations |-> "option u32", num_annotators |-> "option u32",
     num_classes |-> "u32", num_complete_files |-> "u32",
     num_images |-> "u32", num_items |-> "u32", num_videos |-> "u32",
     owner_id |-> "u32", parent_id |-> "u32", pdf_fit_page |-> "bool", progress |-> "f64",
     public |-> "bool", reviewers_can_annotate |-> "bool", slug |-> "string",
     team_id |-> "u32", team_slug |-> "string", updated_at |-> "string",
     version |-> "u32", work_size |-> "u32", work_prioritization |-> "string"]
\* Dataset::default() with the given fields set
Dataset(fields) ==
    [k \in DOMAIN DatasetFields |->
        IF k \in DOMAIN fields THEN fields[k] ELSE None]

\* #[derive(Deserialize)] for Dataset read from a JSON object: the entries
\* are taken in order, a key that is no field is passed over, a field met
\* twice is an error, null or no entry is None
DeDataset(j) ==
    IF j.t # "object" THEN Err(InvalidType("struct Dataset"))
    ELSE LET e == j.entries
             Value(i) ==
                 LET kind == DatasetFields[e[i].key]
                     v == e[i].val
                 IN  IF \E o \in 1..(i - 1) : e[o].key = e[i].key
                     THEN Err(DuplicateField(e[i].key))
                     ELSE IF v.t = "null" THEN Ok(None)
                     ELSE IF kind = "u32"
                     THEN IF DeU32(v).ok THEN Ok(Some(DeU32(v).val)) ELSE DeU32(v)
                     ELSE IF kind = "string" THEN DeOptionString(v)
                     ELSE IF kind = "bool"
                     THEN IF v.t = "bool" THEN Ok(Some(v.b))
                          ELSE Err(InvalidType("a boolean"))
                     ELSE IF kind = "option u32"
                     THEN IF DeU32(v).ok THEN Ok(Some(Some(DeU32(v).val)))
                          ELSE DeU32(v)
                     ELSE IF kind = "f64"
                     THEN IF v.t = "number" THEN Ok(Some(v.n))
                          ELSE Err(InvalidType("f64"))
                     ELSE IF v.t = "object"
                               /\ \A o \in DOMAIN v.entries : v.entries[o].val.t = "string"
                     THEN Ok(Some([k \in {v.entries[o].key : o \in DOMAIN v.entries} |->
                                    v.entries[CHOOSE o \in At(v.entries, k) :
                                        \A p \in At(v.entries, k) : p <= o].val.s]))
                     ELSE Err(InvalidType("a map"))
             Fields == {i \in DOMAIN e : e[i].key \in DOMAIN DatasetFields}
             Failed == {i \in Fields : ~Value(i).ok}
         IN  IF Failed # {} THEN Value(FirstOf(Failed))
             ELSE Ok([k \in DOMAIN DatasetFields |->
                        IF At(e, k) = {} THEN None
                        ELSE Value(FirstOf(At(e, k))).val])
\* Vec<Option<Dataset>> read from a JSON array: null is None
DeDatasets(j) ==
    IF j.t # "array" THEN Err(InvalidType("a sequence"))
    ELSE LET Item(i) ==
                 IF j.items[i].t = "null" THEN Ok(None)
                 ELSE IF DeDataset(j.items[i]).ok
                 THEN Ok(Some(DeDataset(j.items[i]).val))
                 ELSE DeDataset(j.items[i])
             Failed == {i \in DOMAIN j.items : ~Item(i).ok}
         IN  IF Failed # {} THEN Item(FirstOf(Failed))
             ELSE Ok([i \in DOMAIN j.items |-> Item(i).val])

\* expect_http_ok!(x, Vec<Option<Dataset>>): x.text().await? gives the text
\* of the body or the error of reading it
ExpectHttpOk(x) ==
    IF x.status # 200
    THEN IF ~x.body.ok THEN Err(x.body.err)
         ELSE Err([msg |-> "Invalid status code", status |-> x.status,
                   text |-> x.body.val])
    ELSE IF ~x.body.ok THEN Err(x.body.err)
    ELSE LET text == x.body.val
             res == IF text.json THEN DeDatasets(text.value) ELSE Err([kind |-> "syntax"])
         IN  IF ~res.ok THEN Err([text |-> text, err |-> res.err])
             ELSE Ok(res.val)

\* Dataset::list_datasets
ListDatasets(response) ==
    [sent |-> <<[method |-> "GET", endpoint |-> <<"datasets">>, payload |-> None]>>,
     ret |-> IF Unanswered(response) THEN response
             ELSE ExpectHttpOk(response.val)]

\* Team, with the fields the operations read
Team(slug, api_key, team_id) ==
    [slug |-> slug, api_key |-> api_key, team_id |-> team_id]

\* a delete that leaves out the classes without an id and sends the rest
DeleteAnnotationClassesWithIds(self, classes, response) ==
    LET WithId(cs) == SelectSeq(cs, LAMBDA c : c.id.some)
        payload ==
            [annotation_class_ids |->
                 [i \in DOMAIN WithId(classes) |-> WithId(classes)[i].id.v],
             annotations_to_delete_count |-> 0]
    IN  IF ~self.team_id.some THEN Refuse("Missing team id")
        ELSE [sent |-> <<[method |-> "DELETE",
                          endpoint |-> <<"teams", self.team_id.v, "delete_classes">>,
                          payload |-> payload]>>,
              ret |-> IF Unanswered(response) THEN response
                      ELSE IF response.val.status # 204
                      THEN Err([msg |-> "Unable to delete classes with status code",
                                status |-> response.val.status])
                      ELSE Ok(Unit)]
\* Team::delete_annotation_classes
DeleteAnnotationClasses(self, classes, response) ==
    LET missing == {i \in DOMAIN classes : ~classes[i].id.some}
        payload ==
            [annotation_class_ids |-> [i \in DOMAIN classes |-> classes[i].id.v],
             annotations_to_delete_count |-> 0]
    IN  IF ~self.team_id.some THEN Refuse("Missing team id")
        ELSE IF missing # {}
        THEN [sent |-> <<>>,
              ret |-> LET name == classes[FirstOf(missing)].name
                      IN  Err([msg |-> "Class missing id",
                               name |-> IF name.some THEN name.v ELSE ""])]
        ELSE [sent |-> <<[method |-> "DELETE",
                          endpoint |-> <<"teams", self.team_id.v, "delete_classes">>,
                          payload |-> payload]>>,
              ret |-> IF Unanswered(response) THEN response
                      ELSE IF response.val.status # 204
                      THEN Err([msg |-> "Unable to delete classes with status code",
                                status |-> response.val.status])
                      ELSE Ok(Unit)]

\* impl From<&Dataset> for DatasetUpdate
DatasetUpdateFrom(value) ==
    [annotation_hotkeys |-> value.annotation_hotkeys,
     annotators_can_create_tags |-> value.annotators_can_create_tags,
     annotators_can_instantiate_workflows |->
         value.annotators_can_instantiate_workflows,
     anyone_can_double_assign |-> value.anyone_can_double_assign,
     instructions |-> value.instructions,
     name |-> value.name,
     public |-> value.public,
     reviewers_can_annotate |-> value.reviewers_can_annotate,
     work_size |-> value.work_size,
     work_prioritization |-> value.work_prioritization]

\* the PUT of the three updates: the id is asked for while the endpoint is
\* built, and the call succeeds on status 200 alone
PutDataset(self, no_id, payload, response) ==
    IF ~self.id.some THEN Refuse(no_id)
    ELSE [sent |-> <<[method |-> "PUT", endpoint |-> <<"datasets", self.id.v>>,
                      payload |-> Some(payload)]>>,
          ret |-> IF Unanswered(response) THEN response
                  ELSE IF response.val.status # 200
                  THEN Err([msg |-> "Invalid status code",
                            status |-> response.val.status])
                  ELSE Ok(Unit)]
\* Dataset::update_batch_size
UpdateBatchSize(self, size, response) ==
    PutDataset(self, "Id required",
               [DatasetUpdateFrom(self) EXCEPT !.work_size = Some(size)],
               response)
\* Dataset::update_annotation_hotkeys
UpdateAnnotationHotkeys(self, hotkeys, response) ==
    PutDataset(self, "Dataset is missing Id",
               [DatasetUpdateFrom(self) EXCEPT !.annotation_hotkeys = Some(hotkeys)],
               response)
\* an update that sends the new instructions alone, on a default payload
UpdateInstructionsAlone(self, instructions, response) ==
    PutDataset(self, "Id required",
               [DatasetUpdateFrom(Dataset(<<>>)) EXCEPT !.instructions = Some(instructions)],
               response)
\* Dataset::update_instructions
UpdateInstructions(self, instructions, response) ==
    PutDataset(self, "Id required",
               [DatasetUpdateFrom(self) EXCEPT !.instructions = Some(instructions)],
               response)

\* Config, with the fields from_config reads
Config(api_endpoint, default_team, teams) ==
    [api_endpoint |-> api_endpoint, default_team |-> default_team,
     teams |-> teams]
\* V7Client::new: RawClient::new builds the reqwest client from two fixed
\* headers, which a working host always does
V7ClientNew(api_endpoint, api_key, team) ==
    Ok([api_endpoint |-> api_endpoint, api_key |-> api_key, team |-> team])
\* from_config reading the key of the default team whatever team is asked for
FromConfigOfDefaultTeam(config, team) ==
    LET entry == config.teams[config.default_team]
    IN  IF config.default_team \notin DOMAIN config.teams
        THEN Err([msg |-> "The requested team is not found in the config"])
        ELSE IF ~entry.api_key.some
        THEN Err([msg |-> "Api key not found in configuration"])
        ELSE V7ClientNew(config.api_endpoint, entry.api_key.v,
                         IF team.some THEN team.v ELSE config.default_team)
\* V7Client::from_config
FromConfig(config, team) ==
    LET api_endpoint == config.api_endpoint
        client_team == IF team.some THEN team.v ELSE config.default_team
    IN  IF client_team \notin DOMAIN config.teams
        THEN Err([msg |-> "The requested team is not found in the config"])
        ELSE IF ~config.teams[client_team].api_key.some
        THEN Err([msg |-> "Api key not found in configuration"])
        ELSE V7ClientNew(api_endpoint, config.teams[client_team].api_key.v,
                         client_team)

\* the operation of a call, run as far as the response lets it
Run(c, response) ==
    CASE c.fn = "list_datasets" -> ListDatasets(response)
      [] c.fn = "delete_annotation_classes" ->
            DeleteAnnotationClasses(c.self, c.classes, response)
      [] c.fn = "update_batch_size" -> UpdateBatchSize(c.self, c.size, response)
      [] c.fn = "update_annotation_hotkeys" ->
            UpdateAnnotationHotkeys(c.self, c.hotkeys, response)
      [] c.fn = "update_instructions" ->
            UpdateInstructions(c.self, c.instructions, response)
      [] c.fn = "from_config" ->
            [sent |-> <<>>, ret |-> FromConfig(c.config, c.team)]

\* the calls made: datasets with and without an id and with old settings,
\* teams and class lists with and without ids, configs whose teams have a
\* key, have none, or are not there
ApiCalls ==
    LET Datasets ==
            {Dataset([id |-> id, work_size |-> size, instructions |-> text,
                      annotation_hotkeys |-> keys, name |-> Some("slides"),
                      slug |-> Some("slides")]) :
                id \in {None, Some(7)}, size \in {None, Some(10)},
                text \in {None, Some("old")},
                keys \in {None, Some([a |-> "tag"])}}
        Slugs == {"team-a", "team-noapi"}
        Teams == {Team(s, k, None) : s \in Slugs, k \in {None, Some("key-1")}}
        TeamMaps == UNION {[S -> Teams] : S \in SUBSET Slugs}
        Configs ==
            {Config(e, d, t) : e \in {"https://darwin/api/", "http://localhost/"},
                               d \in Slugs \cup {"team-kevin"}, t \in TeamMaps}
    IN  {[fn |-> "list_datasets"]}
        \cup {[fn |-> "delete_annotation_classes", self |-> Team("team-a", None, id),
               classes |-> cs] : id \in {None, Some(5)}, cs \in ClassLists}
        \cup {[fn |-> "update_batch_size", self |-> d, size |-> n] :
                 d \in Datasets, n \in {10, 20}}
        \cup {[fn |-> "update_annotation_hotkeys", self |-> d, hotkeys |-> h] :
                 d \in Datasets, h \in {[a |-> "tag"], [b |-> "box"]}}
        \cup {[fn |-> "update_instructions", self |-> d, instructions |-> t] :
                 d \in Datasets, t \in {"old", "new"}}
        \cup {[fn |-> "from_config", config |-> c, team |-> t] :
                 c \in Configs,
                 t \in {None, Some("team-a"), Some("team-noapi"), Some("team-kevin")}}

\* the replies of the platform: the send failing, or a response whose body
\* cannot be read, is no JSON, or is a JSON document
Replies ==
    LET Texts ==
            {[json |-> FALSE]}
            \cup {[json |-> TRUE, value |-> v] : v \in
                    {JArray(<<>>), JArray(<<JNull>>), JArray(<<JObject(<<>>)>>),
                     JArray(<<JObject(<<Entry("id", JInt(7)),
                                        Entry("slug", JStr("slides")),
                                        Entry("public", [t |-> "bool", b |-> TRUE]),
                                        Entry("annotation_hotkeys",
                                              JObject(<<Entry("a", JStr("tag"))>>)),
                                        Entry("progress", JFloat(1)),
                                        Entry("num_annotations", JInt(3)),
                                        Entry("thumbnails", JArray(<<>>))>>),
                               JNull>>),
                     JObject(<<>>),
                     JArray(<<JObject(<<Entry("id", JStr("seven"))>>)>>),
                     JArray(<<JObject(<<Entry("slug", JStr("a")),
                                        Entry("slug", JStr("b"))>>)>>),
                     JArray(<<JInt(1)>>)}}
        Bodies == {Err([kind |-> "body"])} \cup {Ok(t) : t \in Texts}
    IN  {Err([kind |-> "send"])}
        \cup {Ok([status |-> s, body |-> b]) :
                 s \in {200, 201, 204, 404, 412}, b \in Bodies}

\* a caller makes one call, which runs up to its request
Invoke ==
    /\ apiCall = NoCall
    /\ \E c \in ApiCalls :
          /\ apiCall' = c
          /\ sent' = Run(c, Pending).sent
          /\ apiRet' = Run(c, Pending).ret
    /\ reply' = reply
    /\ UNCHANGED <<codecVars, eqVars, importVars, typeVars, exportVars, parallelVars>>

\* the platform answers the request
Respond ==
    /\ sent # <<>>
    /\ reply = Pending
    /\ \E r \in Replies : reply' = r
    /\ UNCHANGED <<apiCall, sent, apiRet>>
    /\ UNCHANGED <<codecVars, eqVars, importVars, typeVars, exportVars, parallelVars>>

\* the call goes on from its await and returns
Resume ==
    /\ reply # Pending
    /\ apiRet = Pending
    /\ apiRet' = Run(apiCall, reply).ret
    /\ UNCHANGED <<apiCall, sent, reply>>
    /\ UNCHANGED <<codecVars, eqVars, importVars, typeVars, exportVars, parallelVars>>

NextApi == Invoke \/ Respond \/ Resume
SpecApi == Init /\ [][NextApi]_vars

----------------------------------------------------------------------------
(* Claims on the operations built on expect_http_ok.                        *)

\* the response the call was given, once it has returned
Answered(fn) == apiCall.fn = fn /\ reply # Pending /\ reply.ok /\ apiRet # Pending
\* the body of the response reads as a list of datasets
DecodesAsDatasets(x) ==
    x.body.ok /\ x.body.val.json /\ DeDatasets(x.body.val.value).ok

\* C25: list_datasets returns a decoded value exactly when the status of the
\* response is 200 and its body decodes as the expected type; every other
\* status gives an error that reports the status code, and a 200 response
\* with a body that does not decode gives an error.
C25_DecodedOnlyOn200 ==
    Answered("list_datasets")
        => LET x == reply.val
           IN  /\ apiRet.ok <=> (x.status = 200 /\ DecodesAsDatasets(x))
               /\ apiRet.ok => apiRet.val = DeDatasets(x.body.val.value).val
               /\ x.status # 200
                     => /\ ~apiRet.ok
                        /\ "status" \in DOMAIN apiRet.err
                        /\ apiRet.err.status = x.status

----------------------------------------------------------------------------
(* Claim on the client built from a config.                                 *)

\* the team from_config is asked for: the given one, or the default team
SelectedTeam == IF apiCall.team.some THEN apiCall.team.v ELSE apiCall.config.default_team

----------------------------------------------------------------------------
(* Claim on the deletion of annotation classes.                             *)

\* the delete request of the call: the ids of all its classes in their order
DeleteRequest ==
    [method |-> "DELETE",
     endpoint |-> <<"teams", apiCall.self.team_id.v, "delete_classes">>,
     payload |-> [annotation_class_ids |->
                      [i \in DOMAIN apiCall.classes |-> apiCall.classes[i].id.v],
                  annotations_to_delete_count |-> 0]]

\* C29: delete_annotation_classes validates before it sends: with the team
\* id missing or a class without an id it returns an error and no request is
\* ever issued; otherwise it issues exactly one delete request, whose
\* annotation_class_ids are the ids of all the classes in input order, and
\* it succeeds only when the status of the response is 204.
C29_ValidatesBeforeSending ==
    /\ [](apiCall.fn = "delete_annotation_classes"
            => IF ~apiCall.self.team_id.some
                    \/ \E i \in DOMAIN apiCall.classes : ~apiCall.classes[i].id.some
               THEN sent = <<>> /\ apiRet # Pending /\ ~apiRet.ok
               ELSE /\ sent = <<DeleteRequest>>
                    /\ (apiRet # Pending /\ apiRet.ok)
                          => (reply # Pending /\ reply.ok /\ reply.val.status = 204))
    /\ [][apiCall.fn = "delete_annotation_classes" => sent' = sent]_vars
\* a delete of two classes with ids, answered with 204, that succeeded
C29_Witness ==
    /\ apiCall.fn = "delete_annotation_classes"
    /\ apiCall.self.team_id.some
    /\ Len(apiCall.classes) = 2
    /\ \A i \in DOMAIN apiCall.classes : apiCall.classes[i].id.some
    /\ apiCall.classes[1].id # apiCall.classes[2].id
    /\ sent = <<DeleteRequest>>
    /\ reply # Pending /\ reply.ok /\ reply.val.status = 204
    /\ apiRet = Ok(Unit)

----------------------------------------------------------------------------
(* Claim on the payload of the dataset updates.                             *)

\* the field of DatasetUpdate each update sets
UpdatedField ==
    [update_batch_size |-> "work_size",
     update_annotation_hotkeys |-> "annotation_hotkeys",
     update_instructions |-> "instructions"]

\* C30: the payload sent by update_batch_size, update_annotation_hotkeys and
\* update_instructions equals DatasetUpdate::from(dataset) in every field
\* but the one being updated (work_size, annotation_hotkeys, instructions),
\* and the call leaves the Dataset as it was.
C30_PayloadKeepsOtherFields ==
    /\ [](apiCall.fn \in DOMAIN UpdatedField
            => \A i \in DOMAIN sent :
                  \A k \in DOMAIN DatasetUpdateFrom(apiCall.self) \ {UpdatedField[apiCall.fn]} :
                      sent[i].payload.v[k] = DatasetUpdateFrom(apiCall.self)[k])
    /\ [][apiCall.fn \in DOMAIN UpdatedField => apiCall'.self = apiCall.self]_vars
\* a batch size update of a dataset that has a batch size, instructions and
\* hotkeys already, accepted by the platform
C30_Witness ==
    /\ apiCall.fn = "update_batch_size"
    /\ apiCall.self.work_size = Some(10)
    /\ apiCall.size = 20
    /\ apiCall.self.instructions = Some("old")
    /\ apiCall.self.annotation_hotkeys.some
    /\ Len(sent) = 1
    /\ sent[1].payload.v.work_size = Some(20)
    /\ sent[1].payload.v.instructions = Some("old")
    /\ sent[1].payload.v.name = Some("slides")
    /\ reply # Pending /\ reply.ok /\ reply.val.status = 200
    /\ apiRet = Ok(Unit)

====
